---- MODULE Spec2Model ----
(***************************************************************************)
(* A model of twcai, a client of the Timeweb Cloud AI HTTP API.            *)
(*                                                                         *)
(* The state is one ClientBuilder, the CloudAIClient it builds and one     *)
(* endpoint operation in flight on that client.  An endpoint operation is  *)
(* an async fn: it builds its request, awaits send(), and (depending on    *)
(* the status received) awaits the body as JSON or as text.  The           *)
(* transport and the server are the environment: whether send() fails,     *)
(* which status arrives and what the body holds are chosen by \E.          *)
(***************************************************************************)
EXTENDS Naturals, Sequences, FiniteSets, TLC

(***************************************************************************)
(* Bounds of the model.                                                    *)
(***************************************************************************)
\* Endpoint calls made on one client in one behaviour.
MaxCalls == 2
MaxItems == 2
\* http::StatusCode holds 100..=999; the classifier is checked on all of them.
MinStatus == 100
MaxStatus == 999

(***************************************************************************)
(* Option<T>: None is the empty set, Some(x) the singleton.                *)
(***************************************************************************)
None == {}
Some(x) == {x}
unwrap(o) == CHOOSE x \in o : TRUE
unwrap_or_else(o, d) == IF o = None THEN d ELSE unwrap(o)

(***************************************************************************)
(* error.rs: TwcError and the status classifier.                           *)
(***************************************************************************)
TwcErrorKinds ==
    {"Http", "Json", "Url", "Unauthorized", "NotFound", "Forbidden",
     "InvalidRequest", "ServerError", "Configuration", "Cancelled"}

Http == [kind |-> "Http"]
Unauthorized == [kind |-> "Unauthorized"]
Forbidden == [kind |-> "Forbidden"]
NotFound(message) == [kind |-> "NotFound", message |-> message]
InvalidRequest(message) == [kind |-> "InvalidRequest", message |-> message]
ServerError(status, message) ==
    [kind |-> "ServerError", status |-> status, message |-> message]
Configuration(message) == [kind |-> "Configuration", message |-> message]

\* Result<T>: Ok(v) or Err(e); e is one of the error values above.
Ok(v) == [ok |-> TRUE, value |-> v]
Err(e) == [ok |-> FALSE, error |-> e]

\* A mutant of from_status: the 5xx arm stops one short of 599.
from_status_5xx_short(status, message) ==
    IF status = 401 THEN Unauthorized
    ELSE IF status = 403 THEN Forbidden
    ELSE IF status = 404
        THEN NotFound(unwrap_or_else(message, "Resource not found"))
    ELSE IF status >= 500 /\ status <= 598
        THEN ServerError(status, unwrap_or_else(message, "Internal server error"))
    ELSE InvalidRequest(unwrap_or_else(message, "Bad request"))

\* A mutant of from_status: ServerError carries a fixed status and the
\* default messages of NotFound and InvalidRequest are exchanged.
from_status_wrong_payload(status, message) ==
    IF status = 401 THEN Unauthorized
    ELSE IF status = 403 THEN Forbidden
    ELSE IF status = 404
        THEN NotFound(unwrap_or_else(message, "Bad request"))
    ELSE IF status >= 500 /\ status <= 599
        THEN ServerError(500, unwrap_or_else(message, "Internal server error"))
    ELSE InvalidRequest(unwrap_or_else(message, "Resource not found"))

\* TwcError::from_status(status, message): the match on status.as_u16().
from_status(status, message) ==
    IF status = 401 THEN Unauthorized
    ELSE IF status = 403 THEN Forbidden
    ELSE IF status = 404
        THEN NotFound(unwrap_or_else(message, "Resource not found"))
    ELSE IF status >= 500 /\ status <= 599
        THEN ServerError(status, unwrap_or_else(message, "Internal server error"))
    ELSE InvalidRequest(unwrap_or_else(message, "Bad request"))

\* reqwest::StatusCode::is_success: 200..=299.
is_success(status) == status >= 200 /\ status < 300

(***************************************************************************)
(* Inputs: the values callers and the server are drawn from.               *)
(***************************************************************************)
BaseUrls == {"https://custom.example.com"}
Tokens == {"secret-token", "other-token"}
TimeoutSecs == {30}
AgentIds == {"agent-123"}
ConversationIds == {"conv_1"}
ItemIds == {"msg_1"}
ResponseIds == {"resp_1"}
Referers == {"https://site.example/page"}
Origins == {"https://site.example"}

(***************************************************************************)
(* lib.rs: ClientConfig.                                                   *)
(***************************************************************************)
\* A mutant of auth_header: the bare credential, without the scheme.
auth_header_no_scheme(config) == config.token

\* ClientConfig::auth_header: format!("Bearer {}", self.token).
auth_header(config) == "Bearer " \o config.token

(***************************************************************************)
(* client.rs: ClientBuilder.                                               *)
(***************************************************************************)
DefaultBaseUrl == "https://agent.timeweb.cloud"
DefaultTimeoutSecs == 120

\* impl Default for ClientBuilder.
ClientBuilder_default ==
    [base_url |-> Some(DefaultBaseUrl),
     token |-> None,
     timeout |-> Some(DefaultTimeoutSecs)]

\* A mutant of build: the transport handle is created before the
\* credential is looked at.
build_transport_first(b, http_ok) ==
    IF b.base_url = None
        THEN [result |-> Err(Configuration("Base URL is required")),
              transport |-> 0]
    ELSE IF b.token = None
        THEN [result |-> Err(Configuration("Token is required")),
              transport |-> 1]
    ELSE IF ~http_ok
        THEN [result |-> Err(Http), transport |-> 1]
    ELSE [result |->
            Ok([base_url |-> unwrap(b.base_url),
                token |-> unwrap(b.token),
                http_client |->
                    [timeout |-> unwrap_or_else(b.timeout, DefaultTimeoutSecs),
                     default_headers |-> {<<"accept", "application/json">>}]]),
          transport |-> 1]

\* A mutant of build: the base address set on the builder is ignored.
build_production_base(b, http_ok) ==
    IF b.token = None
        THEN [result |-> Err(Configuration("Token is required")),
              transport |-> 0]
    ELSE IF ~http_ok
        THEN [result |-> Err(Http), transport |-> 1]
    ELSE [result |->
            Ok([base_url |-> DefaultBaseUrl,
                token |-> unwrap(b.token),
                http_client |->
                    [timeout |-> unwrap_or_else(b.timeout, DefaultTimeoutSecs),
                     default_headers |-> {<<"accept", "application/json">>}]]),
          transport |-> 1]

\* ClientBuilder::build.  http_ok is whether reqwest::Client::builder()
\* .build() succeeds; transport counts the calls of it.
build(b, http_ok) ==
    IF b.base_url = None
        THEN [result |-> Err(Configuration("Base URL is required")),
              transport |-> 0]
    ELSE IF b.token = None
        THEN [result |-> Err(Configuration("Token is required")),
              transport |-> 0]
    ELSE IF ~http_ok
        THEN [result |-> Err(Http), transport |-> 1]
    ELSE [result |->
            Ok([base_url |-> unwrap(b.base_url),
                token |-> unwrap(b.token),
                http_client |->
                    [timeout |-> unwrap_or_else(b.timeout, DefaultTimeoutSecs),
                     default_headers |-> {<<"accept", "application/json">>}]]),
          transport |-> 1]

\* CloudAIClient::from_env: env is the environment (TWCAI_BASE_URL and
\* TWCAI_API_TOKEN, each set or not).  A missing token is reported before
\* any builder exists; otherwise both values are set on a new builder,
\* which is built.
from_env(env, http_ok) ==
    IF env.token = None
        THEN [result |->
                Err(Configuration(
                    "TWCAI_API_TOKEN environment variable not set")),
              transport |-> 0]
    ELSE build([ClientBuilder_default EXCEPT
                   !.base_url =
                       Some(unwrap_or_else(env.base_url, DefaultBaseUrl)),
                   !.token = env.token],
               http_ok)

(***************************************************************************)
(* JSON values (serde_json::Value), as tagged tuples.                      *)
(***************************************************************************)
JNull == <<"null">>
JString(str) == <<"string", str>>
JNumber(n) == <<"number", n>>
\* A number that is no integer of 64 bits.  On the wire it is the text
\* written; in a serde_json::Value it is an f64, named by the text
\* serde_json writes for it.
JFloat(text) == <<"float", text>>
JArray(elems) == <<"array", elems>>
\* An object is the sequence of its <<key, value>> members in the order
\* they are written.
JObject(members) == <<"object", members>>

\* The characters of keys in the order of their bytes (the printable
\* ASCII characters but the grave accent).
Chars ==
    " !\"#$%&'()*+,-./0123456789:;<=>?@ABCDEFGHIJKLMNOPQRSTUVWXYZ[\\]^_"
        \o "abcdefghijklmnopqrstuvwxyz{|}~"
char_code(c) == CHOOSE i \in 1..Len(Chars) : SubSeq(Chars, i, i) = c

\* Ord for String: a < b, byte by byte, a proper prefix first.
str_lt(a, b) ==
    IF \A i \in 1..Len(a) :
           i <= Len(b) /\ SubSeq(a, i, i) = SubSeq(b, i, i)
        THEN Len(a) < Len(b)
    ELSE LET i == CHOOSE i \in 1..Len(a) :
                      /\ i > Len(b) \/ SubSeq(a, i, i) # SubSeq(b, i, i)
                      /\ \A k \in 1..(i - 1) :
                            SubSeq(a, k, k) = SubSeq(b, k, k)
         IN  /\ i <= Len(b)
             /\ char_code(SubSeq(a, i, i)) < char_code(SubSeq(b, i, i))

\* serde_json's Map (a BTreeMap of the keys) collecting the members of an
\* object: values[n] is the value of member n.  Of the members of one key
\* the last is kept, and the members are held in the order of their keys.
Map_collect(members, values) ==
    LET keep == {n \in DOMAIN members :
                    \A k \in (n + 1)..Len(members) :
                       members[k][1] # members[n][1]}
    IN  [p \in 1..Cardinality(keep) |->
            LET n == CHOOSE n \in keep :
                        Cardinality({k \in keep :
                                        str_lt(members[k][1], members[n][1])})
                          = p - 1
            IN  <<members[n][1], values[n]>>]

(***************************************************************************)
(* types/conversation.rs: the bodies of create_conversation and            *)
(* create_conversation_items.                                              *)
(***************************************************************************)
\* The numbers of items and of metadata entries the documentation of the
\* fields names.
ItemLimit == 20
MetadataLimit == 16

ConversationItemContentInput(content_type, text) ==
    [content_type |-> content_type, text |-> text]
ConversationItemContentInput_serialize(c) ==
    JObject(<<<<"type", JString(c.content_type)>>,
              <<"text", JString(c.text)>>>>)
\* ConversationItemMessage and CreateItemRequest have the same fields.
ConversationItemMessage(item_type, role, content) ==
    [item_type |-> item_type, role |-> role, content |-> content]
ConversationItemMessage_serialize(m) ==
    JObject(<<<<"type", JString(m.item_type)>>,
              <<"role", JString(m.role)>>,
              <<"content",
                JArray([i \in DOMAIN m.content |->
                          ConversationItemContentInput_serialize(
                              m.content[i])])>>>>)
\* Vec<ConversationItemMessage>, Vec<CreateItemRequest>
Items_serialize(items) ==
    JArray([i \in DOMAIN items |-> ConversationItemMessage_serialize(items[i])])

\* CreateConversationRequest: both fields are skipped when None.
CreateConversationRequest_default == [items |-> None, metadata |-> None]
CreateConversationRequest_serialize(r) ==
    JObject((IF r.items = None THEN <<>>
             ELSE <<<<"items", Items_serialize(unwrap(r.items))>>>>)
            \o (IF r.metadata = None THEN <<>>
                ELSE <<<<"metadata", unwrap(r.metadata)>>>>))
\* CreateItemsRequest
CreateItemsRequest_serialize(r) ==
    JObject(<<<<"items", Items_serialize(r.items)>>>>)

\* The bodies callers pass: n items, a metadata object of m entries.
Items(n) ==
    [i \in 1..n |->
        ConversationItemMessage(
            "message", "user",
            <<ConversationItemContentInput("input_text", "hi")>>)]
\* A metadata Value of m members key1 .. keym: a Map of the members
\* inserted, held in the order of its keys.
Metadata(m) ==
    JObject(Map_collect([i \in 1..m |-> <<"key" \o ToString(i), JString("v")>>],
                        [i \in 1..m |-> JString("v")]))
CreateConversationRequests ==
    {CreateConversationRequest_default,
     [items |-> Some(Items(0)), metadata |-> None],
     [items |-> Some(Items(ItemLimit)),
      metadata |-> Some(Metadata(MetadataLimit))],
     [items |-> Some(Items(ItemLimit + 1)),
      metadata |-> Some(Metadata(MetadataLimit + 1))]}
CreateItemsRequests ==
    {[items |-> Items(n)] : n \in {0, 1, ItemLimit, ItemLimit + 1}}

(***************************************************************************)
(* reqwest's RequestBuilder, as far as the endpoint operations use it.     *)
(* A request is its verb, its URL, its headers (name, value), whether it   *)
(* carries a JSON body and, for the two operations above, that body.       *)
(***************************************************************************)
new_request(config, method, url) ==
    [method |-> method, url |-> url,
     headers |-> config.http_client.default_headers, json |-> FALSE,
     body |-> None]
header(r, name, value) == [r EXCEPT !.headers = @ \cup {<<name, value>>}]
json(r) ==
    [r EXCEPT !.json = TRUE,
              !.headers = @ \cup {<<"content-type", "application/json">>}]
\* .json(&request) with the encoding of the request.
json_body(r, body) == [json(r) EXCEPT !.body = Some(body)]
AUTHORIZATION == "authorization"

HeaderNames(r) == {h[1] : h \in r.headers}
HeaderValues(r, name) == {h[2] : h \in {g \in r.headers : g[1] = name}}

(***************************************************************************)
(* serde_urlencoded::to_string on the query structs.  The derived          *)
(* Serialize gives the fields in declaration order; a None field is        *)
(* skipped (skip_serializing_if); a string is form-urlencoded, a number    *)
(* and a bool are written by Display, and a sequence is refused by the     *)
(* value serializer with the error "unsupported value".                    *)
(***************************************************************************)
Unreserved ==
    {"a", "b", "c", "d", "e", "f", "g", "h", "i", "j", "k", "l", "m", "n",
     "o", "p", "q", "r", "s", "t", "u", "v", "w", "x", "y", "z",
     "A", "B", "C", "D", "E", "F", "G", "H", "I", "J", "K", "L", "M", "N",
     "O", "P", "Q", "R", "S", "T", "U", "V", "W", "X", "Y", "Z",
     "0", "1", "2", "3", "4", "5", "6", "7", "8", "9", "*", "-", ".", "_"}

\* The %XX escape of the other characters the inputs use.
percent_encode_byte(c) ==
    CASE c = "&" -> "%26"
      [] c = "=" -> "%3D"
      [] c = "/" -> "%2F"
      [] c = ":" -> "%3A"
      [] c = "?" -> "%3F"
      [] c = "%" -> "%25"
      [] c = "+" -> "%2B"

\* form_urlencoded::byte_serialize.
RECURSIVE byte_serialize(_)
byte_serialize(s) ==
    IF Len(s) = 0 THEN ""
    ELSE LET c == Head(s)
         IN  (IF c \in Unreserved THEN c
              ELSE IF c = " " THEN "+"
              ELSE percent_encode_byte(c)) \o byte_serialize(Tail(s))

\* One field of a query struct: its key, its Option value, its Rust type.
Field(key, value, ty) == [key |-> key, value |-> value, ty |-> ty]

\* #[derive(Serialize)] of the four query structs.
ListItemsQuery_serialize(q) ==
    <<Field("after", q.after, "String"), Field("include", q.include, "Vec"),
      Field("limit", q.limit, "u32"), Field("order", q.order, "String")>>
GetItemQuery_serialize(q) == <<Field("include", q.include, "Vec")>>
CreateItemsQuery_serialize(q) == <<Field("include", q.include, "Vec")>>
GetResponseQuery_serialize(q) ==
    <<Field("include", q.include, "Vec"),
      Field("include_obfuscation", q.include_obfuscation, "bool"),
      Field("starting_after", q.starting_after, "u32"),
      Field("stream", q.stream, "bool")>>

serialize_value(ty, v) ==
    CASE ty = "String" -> byte_serialize(v)
      [] ty = "u32" -> ToString(v)
      [] ty = "bool" -> IF v THEN "true" ELSE "false"

\* serde_urlencoded::to_string: Ok(query string) or Err(message).
RECURSIVE to_string_from(_, _)
to_string_from(fields, acc) ==
    IF fields = <<>> THEN Ok(acc)
    ELSE LET f == Head(fields)
         IN  IF f.value = None THEN to_string_from(Tail(fields), acc)
             ELSE IF f.ty = "Vec" THEN Err("unsupported value")
             ELSE to_string_from(
                     Tail(fields),
                     (IF acc = "" THEN "" ELSE acc \o "&")
                         \o byte_serialize(f.key) \o "="
                         \o serialize_value(f.ty, unwrap(f.value)))
to_string(fields) == to_string_from(fields, "")

\* A mutant of push_query: the "?" is appended whenever a query is given.
push_query_always_marked(url, query_fields) ==
    IF query_fields = None THEN Ok(url)
    ELSE LET query_string == to_string(unwrap(query_fields))
         IN  IF ~query_string.ok THEN Err(InvalidRequest(query_string.error))
             ELSE Ok(url \o "?" \o query_string.value)

\* A mutant of push_query: a query that cannot be encoded is left out and
\* the request is sent without it.
push_query_lenient(url, query_fields) ==
    IF query_fields = None THEN Ok(url)
    ELSE LET query_string == to_string(unwrap(query_fields))
         IN  IF ~query_string.ok THEN Ok(url)
             ELSE IF query_string.value # ""
                 THEN Ok(url \o "?" \o query_string.value)
             ELSE Ok(url)

\* The `if let Some(q) = query { ... }` block of the four query-taking
\* operations: Ok(url) or Err(InvalidRequest(e.to_string())).
push_query(url, query_fields) ==
    IF query_fields = None THEN Ok(url)
    ELSE LET query_string == to_string(unwrap(query_fields))
         IN  IF ~query_string.ok THEN Err(InvalidRequest(query_string.error))
             ELSE IF query_string.value # ""
                 THEN Ok(url \o "?" \o query_string.value)
             ELSE Ok(url)

\* Query values callers pass.
ListItemsQuery_default ==
    [after |-> None, include |-> None, limit |-> None, order |-> None]
ListItemsQueries ==
    {ListItemsQuery_default,
     [ListItemsQuery_default EXCEPT !.limit = Some(10)],
     [ListItemsQuery_default EXCEPT !.after = Some("msg 1&x"),
                                    !.limit = Some(10),
                                    !.order = Some("desc")],
     [ListItemsQuery_default EXCEPT !.include = Some(<<"a", "b">>)]}
IncludeQuery_default == [include |-> None]
IncludeQueries ==
    {IncludeQuery_default, [include |-> Some(<<"a", "b">>)]}
GetResponseQuery_default ==
    [include |-> None, include_obfuscation |-> None,
     starting_after |-> None, stream |-> None]
GetResponseQueries ==
    {GetResponseQuery_default,
     [GetResponseQuery_default EXCEPT !.starting_after = Some(5),
                                      !.stream = Some(TRUE)],
     [GetResponseQuery_default EXCEPT !.include = Some(<<"a", "b">>)]}

\* Option<Q> over a set of query values.
Optional(S) == {None} \cup {Some(x) : x \in S}

(***************************************************************************)
(* The request each endpoint operation builds: Ok(request), or the Err it  *)
(* returns before sending.                                                 *)
(***************************************************************************)
\* api/client.rs
\* A mutant of call_agent_request: the production address, not the
\* client's.
call_agent_request_default_base(config, agent_access_id) ==
    LET url == DefaultBaseUrl \o "/api/v1/cloud-ai/agents/" \o agent_access_id \o "/call"
        rb(u) ==
            json(header(header(new_request(config, "POST", u), AUTHORIZATION, auth_header(config)), "x-proxy-source", "twcai-rust"))
    IN  Ok(rb(url))

\* call_agent: POST .../call
call_agent_request(config, agent_access_id) ==
    LET url == config.base_url \o "/api/v1/cloud-ai/agents/" \o agent_access_id \o "/call"
        rb(u) ==
            json(header(header(new_request(config, "POST", u), AUTHORIZATION, auth_header(config)), "x-proxy-source", "twcai-rust"))
    IN  Ok(rb(url))

\* chat_completions: POST .../v1/chat/completions
chat_completions_request(config, agent_access_id) ==
    LET url == config.base_url \o "/api/v1/cloud-ai/agents/" \o agent_access_id \o "/v1/chat/completions"
        rb(u) ==
            json(header(header(new_request(config, "POST", u), AUTHORIZATION, auth_header(config)), "x-proxy-source", "twcai-rust"))
    IN  Ok(rb(url))

\* A mutant of text_completions_request: the legacy operation sends no
\* x-proxy-source header.
text_completions_plain_request(config, agent_access_id) ==
    LET url == config.base_url \o "/api/v1/cloud-ai/agents/" \o agent_access_id \o "/v1/completions"
        rb(u) ==
            json(header(new_request(config, "POST", u), AUTHORIZATION, auth_header(config)))
    IN  Ok(rb(url))

\* text_completions: POST .../v1/completions
text_completions_request(config, agent_access_id) ==
    LET url == config.base_url \o "/api/v1/cloud-ai/agents/" \o agent_access_id \o "/v1/completions"
        rb(u) ==
            json(header(header(new_request(config, "POST", u), AUTHORIZATION, auth_header(config)), "x-proxy-source", "twcai-rust"))
    IN  Ok(rb(url))

\* list_models: GET .../v1/models
list_models_request(config, agent_access_id) ==
    LET url == config.base_url \o "/api/v1/cloud-ai/agents/" \o agent_access_id \o "/v1/models"
        rb(u) ==
            header(new_request(config, "GET", u), AUTHORIZATION, auth_header(config))
    IN  Ok(rb(url))

\* A mutant of get_embed_code: the bearer credential is attached.
get_embed_code_with_auth_request(config, agent_access_id, collapsed, referer, origin) ==
    LET url0 == config.base_url \o "/api/v1/cloud-ai/agents/" \o agent_access_id \o "/embed.js"
        url == IF collapsed # None
                   THEN url0 \o "?collapsed="
                            \o (IF unwrap(collapsed) THEN "true" ELSE "false")
                   ELSE url0
    IN  Ok(header(header(header(new_request(config, "GET", url),
                                "referer", referer), "origin", origin),
                  AUTHORIZATION, auth_header(config)))

\* get_embed_code: GET .../embed.js[?collapsed=bool], referer and origin.
get_embed_code_request(config, agent_access_id, collapsed, referer, origin) ==
    LET url0 == config.base_url \o "/api/v1/cloud-ai/agents/" \o agent_access_id \o "/embed.js"
        url == IF collapsed # None
                   THEN url0 \o "?collapsed="
                            \o (IF unwrap(collapsed) THEN "true" ELSE "false")
                   ELSE url0
    IN  Ok(header(header(new_request(config, "GET", url),
                         "referer", referer), "origin", origin))

\* api/conversations.rs
\* A mutant of create_conversation_request: more items than ItemLimit are
\* refused before anything is sent.
create_conversation_request_limited(config, agent_access_id, request) ==
    LET url == config.base_url \o "/api/v1/cloud-ai/agents/" \o agent_access_id \o "/v1/conversations"
        rb(u) ==
            json_body(header(new_request(config, "POST", u), AUTHORIZATION, auth_header(config)),
                      CreateConversationRequest_serialize(request))
    IN  IF request.items # None /\ Len(unwrap(request.items)) > ItemLimit
            THEN Err(InvalidRequest("too many items"))
            ELSE Ok(rb(url))

\* create_conversation: POST .../v1/conversations
create_conversation_request(config, agent_access_id, request) ==
    LET url == config.base_url \o "/api/v1/cloud-ai/agents/" \o agent_access_id \o "/v1/conversations"
        rb(u) ==
            json_body(header(new_request(config, "POST", u), AUTHORIZATION, auth_header(config)),
                      CreateConversationRequest_serialize(request))
    IN  Ok(rb(url))

\* get_conversation: GET .../v1/conversations/{cid}
get_conversation_request(config, agent_access_id, conversation_id) ==
    LET url == config.base_url \o "/api/v1/cloud-ai/agents/" \o agent_access_id \o "/v1/conversations" \o "/" \o conversation_id
        rb(u) ==
            header(new_request(config, "GET", u), AUTHORIZATION, auth_header(config))
    IN  Ok(rb(url))

\* A mutant of update_conversation_request: the update is a PUT.
update_conversation_put_request(config, agent_access_id, conversation_id) ==
    LET url == config.base_url \o "/api/v1/cloud-ai/agents/" \o agent_access_id \o "/v1/conversations" \o "/" \o conversation_id
        rb(u) ==
            json(header(new_request(config, "PUT", u), AUTHORIZATION, auth_header(config)))
    IN  Ok(rb(url))

\* update_conversation: POST .../v1/conversations/{cid}
update_conversation_request(config, agent_access_id, conversation_id) ==
    LET url == config.base_url \o "/api/v1/cloud-ai/agents/" \o agent_access_id \o "/v1/conversations" \o "/" \o conversation_id
        rb(u) ==
            json(header(new_request(config, "POST", u), AUTHORIZATION, auth_header(config)))
    IN  Ok(rb(url))

\* delete_conversation: DELETE .../v1/conversations/{cid}
delete_conversation_request(config, agent_access_id, conversation_id) ==
    LET url == config.base_url \o "/api/v1/cloud-ai/agents/" \o agent_access_id \o "/v1/conversations" \o "/" \o conversation_id
        rb(u) ==
            header(new_request(config, "DELETE", u), AUTHORIZATION, auth_header(config))
    IN  Ok(rb(url))

\* list_conversation_items: GET .../items[?query]
list_conversation_items_request(config, agent_access_id, conversation_id, query) ==
    LET url == config.base_url \o "/api/v1/cloud-ai/agents/" \o agent_access_id \o "/v1/conversations" \o "/" \o conversation_id \o "/items"
        rb(u) ==
            header(new_request(config, "GET", u), AUTHORIZATION, auth_header(config))
        full == push_query(
                    url,
                    IF query = None THEN None
                    ELSE Some(ListItemsQuery_serialize(unwrap(query))))
    IN  IF full.ok THEN Ok(rb(full.value)) ELSE full

\* create_conversation_items: POST .../items[?query]
create_conversation_items_request(config, agent_access_id, conversation_id, request, query) ==
    LET url == config.base_url \o "/api/v1/cloud-ai/agents/" \o agent_access_id \o "/v1/conversations" \o "/" \o conversation_id \o "/items"
        rb(u) ==
            json_body(header(new_request(config, "POST", u), AUTHORIZATION, auth_header(config)),
                      CreateItemsRequest_serialize(request))
        full == push_query(
                    url,
                    IF query = None THEN None
                    ELSE Some(CreateItemsQuery_serialize(unwrap(query))))
    IN  IF full.ok THEN Ok(rb(full.value)) ELSE full

\* get_conversation_item: GET .../items/{iid}[?query]
get_conversation_item_request(config, agent_access_id, conversation_id, item_id, query) ==
    LET url == config.base_url \o "/api/v1/cloud-ai/agents/" \o agent_access_id \o "/v1/conversations" \o "/" \o conversation_id \o "/items/" \o item_id
        rb(u) ==
            header(new_request(config, "GET", u), AUTHORIZATION, auth_header(config))
        full == push_query(
                    url,
                    IF query = None THEN None
                    ELSE Some(GetItemQuery_serialize(unwrap(query))))
    IN  IF full.ok THEN Ok(rb(full.value)) ELSE full

\* delete_conversation_item: DELETE .../items/{iid}
delete_conversation_item_request(config, agent_access_id, conversation_id, item_id) ==
    LET url == config.base_url \o "/api/v1/cloud-ai/agents/" \o agent_access_id \o "/v1/conversations" \o "/" \o conversation_id \o "/items/" \o item_id
        rb(u) ==
            header(new_request(config, "DELETE", u), AUTHORIZATION, auth_header(config))
    IN  Ok(rb(url))

\* api/responses.rs
\* create_response: POST .../v1/responses
create_response_request(config, agent_access_id) ==
    LET url == config.base_url \o "/api/v1/cloud-ai/agents/" \o agent_access_id \o "/v1/responses"
        rb(u) ==
            json(header(new_request(config, "POST", u), AUTHORIZATION, auth_header(config)))
    IN  Ok(rb(url))

\* get_response: GET .../v1/responses/{rid}[?query]
get_response_request(config, agent_access_id, response_id, query) ==
    LET url == config.base_url \o "/api/v1/cloud-ai/agents/" \o agent_access_id \o "/v1/responses" \o "/" \o response_id
        rb(u) ==
            header(new_request(config, "GET", u), AUTHORIZATION, auth_header(config))
        full == push_query(
                    url,
                    IF query = None THEN None
                    ELSE Some(GetResponseQuery_serialize(unwrap(query))))
    IN  IF full.ok THEN Ok(rb(full.value)) ELSE full

\* delete_response: DELETE .../v1/responses/{rid}
delete_response_request(config, agent_access_id, response_id) ==
    LET url == config.base_url \o "/api/v1/cloud-ai/agents/" \o agent_access_id \o "/v1/responses" \o "/" \o response_id
        rb(u) ==
            header(new_request(config, "DELETE", u), AUTHORIZATION, auth_header(config))
    IN  Ok(rb(url))

\* cancel_response: POST .../v1/responses/{rid}/cancel
cancel_response_request(config, agent_access_id, response_id) ==
    LET url == config.base_url \o "/api/v1/cloud-ai/agents/" \o agent_access_id \o "/v1/responses" \o "/" \o response_id \o "/cancel"
        rb(u) ==
            header(new_request(config, "POST", u), AUTHORIZATION, auth_header(config))
    IN  Ok(rb(url))

(***************************************************************************)
(* The response.  Its body is what the server and the transport make of    *)
(* it: whether reading it succeeds, its text, and whether that text        *)
(* deserializes into the type the operation expects.                       *)
(***************************************************************************)
JsonText == "{\"id\":\"x\"}"
\* A page of a list whose has_more says that more items exist.
ListPageText ==
    "{\"object\":\"list\",\"data\":[],\"first_id\":\"msg_1\","
        \o "\"last_id\":\"msg_1\",\"has_more\":true}"
\* A JSON text deserializes into the type of one operation and not into
\* that of another: each comes both ways.
Bodies ==
    {[readable |-> FALSE, text |-> "", valid |-> FALSE],
     [readable |-> TRUE, text |-> "", valid |-> FALSE],
     [readable |-> TRUE, text |-> "boom", valid |-> FALSE],
     [readable |-> TRUE, text |-> JsonText, valid |-> FALSE],
     [readable |-> TRUE, text |-> JsonText, valid |-> TRUE],
     [readable |-> TRUE, text |-> ListPageText, valid |-> FALSE],
     [readable |-> TRUE, text |-> ListPageText, valid |-> TRUE]}
Statuses ==
    {100, 200, 204, 299, 300, 400, 401, 403, 404, 500}
\* The responses servers give: every body with 200, 204 and 404, and the
\* plain-text body with each other status.
Responses ==
    {sb \in Statuses \X Bodies :
        sb[1] \in {200, 204, 404} \/ sb[2].text = "boom"}

\* response.json::<T>().await: the decoded value or a reqwest::Error.
response_json(b) ==
    IF b.readable /\ b.valid THEN Ok([decoded |-> b.text])
    ELSE Err("reqwest::Error")
\* response.text().await: the body text or a reqwest::Error.
response_text(b) ==
    IF b.readable THEN Ok(b.text) ELSE Err("reqwest::Error")
\* Result::ok.
ok(r) == IF r.ok THEN Some(r.value) ELSE None
\* A mutant of map_err_Http: the failure of json() or text() is reported
\* as a JSON error.
map_err_Json(r) == IF r.ok THEN r ELSE Err([kind |-> "Json"])
\* .map_err(TwcError::Http)
map_err_Http(r) == IF r.ok THEN r ELSE Err(Http)

(***************************************************************************)
(* What each operation does with the response once send() has returned     *)
(* it: its result, and the calls it makes on the way ("json" is            *)
(* response.json(), "text" is response.text(), "from_status" is the        *)
(* classifier).                                                            *)
(***************************************************************************)
\* A mutant of handle_response: the body of a 2xx response is read as text
\* and then decoded from a second read.
handle_response_two_reads(status, b) ==
    IF is_success(status)
        THEN [result |-> map_err_Http(response_json(b)),
              calls |-> <<"text", "json">>]
        ELSE [result |-> Err(from_status(status, ok(response_text(b)))),
              calls |-> <<"text", "from_status">>]

\* api/client.rs handle_response.
handle_response(status, b) ==
    IF is_success(status)
        THEN [result |-> map_err_Http(response_json(b)),
              calls |-> <<"json">>]
        ELSE [result |-> Err(from_status(status, ok(response_text(b)))),
              calls |-> <<"text", "from_status">>]

\* api/conversations.rs handle_response.
conversations_handle_response(status, b) ==
    IF is_success(status)
        THEN [result |-> map_err_Http(response_json(b)),
              calls |-> <<"json">>]
        ELSE [result |-> Err(from_status(status, ok(response_text(b)))),
              calls |-> <<"text", "from_status">>]

\* api/responses.rs handle_response.
responses_handle_response(status, b) ==
    IF is_success(status)
        THEN [result |-> map_err_Http(response_json(b)),
              calls |-> <<"json">>]
        ELSE [result |-> Err(from_status(status, ok(response_text(b)))),
              calls |-> <<"text", "from_status">>]

\* A mutant of get_embed_code's response handling: the body is decoded
\* as JSON.
get_embed_code_response_json(status, b) ==
    IF is_success(status)
        THEN [result |-> map_err_Http(response_json(b)),
              calls |-> <<"json">>]
        ELSE [result |-> Err(from_status(status, None)),
              calls |-> <<"from_status">>]

\* get_embed_code after send(): the body as text, or the classifier
\* without a message.
get_embed_code_response(status, b) ==
    IF is_success(status)
        THEN [result |-> map_err_Http(response_text(b)),
              calls |-> <<"text">>]
        ELSE [result |-> Err(from_status(status, None)),
              calls |-> <<"from_status">>]

\* delete_response after send(): Ok(()) or the classifier without a
\* message; the body is never read.
delete_response_response(status, b) ==
    IF is_success(status) \/ status = 204
        THEN [result |-> Ok(<<>>), calls |-> <<>>]
        ELSE [result |-> Err(from_status(status, None)),
              calls |-> <<"from_status">>]

ClientOps ==
    {"call_agent", "chat_completions", "text_completions", "list_models"}
ConversationsOps ==
    {"create_conversation", "get_conversation", "update_conversation",
     "delete_conversation", "list_conversation_items",
     "create_conversation_items", "get_conversation_item",
     "delete_conversation_item"}
ResponsesOps == {"create_response", "get_response", "cancel_response"}
Operations ==
    ClientOps \cup ConversationsOps \cup ResponsesOps
        \cup {"get_embed_code", "delete_response"}

\* The response handling of operation o.
Respond(o, status, b) ==
    CASE o \in ClientOps -> handle_response(status, b)
      [] o \in ConversationsOps -> conversations_handle_response(status, b)
      [] o \in ResponsesOps -> responses_handle_response(status, b)
      [] o = "get_embed_code" -> get_embed_code_response(status, b)
      [] o = "delete_response" -> delete_response_response(status, b)

Range(f) == {f[i] : i \in DOMAIN f}
\* Whether operation o awaits the body of this response.
AwaitsBody(o, status, b) ==
    {"json", "text"} \cap Range(Respond(o, status, b).calls) # {}

\* A mutant of send_failed: a failed send is handed to the classifier.
send_failed_classified(o) ==
    [result |-> Err(from_status(500, None)), calls |-> <<"from_status">>]

\* A mutant of send_failed: a failed send is tried once more.
send_failed_retried(o) == [result |-> Err(Http), calls |-> <<"send">>]

\* `.send().await.map_err(TwcError::Http)?` when send() fails: every
\* operation returns Http at once.
send_failed(o) == [result |-> Err(Http), calls |-> <<>>]

(***************************************************************************)
(* State.                                                                  *)
(***************************************************************************)
VARIABLES
    builder,      \* Option<ClientBuilder>: None once build() consumed it
    built,        \* Option<Result<CloudAIClient>>: what build() returned
    transports,   \* calls of reqwest::Client::builder().build() so far
    client,       \* Option<ClientConfig>: the client's config
    pc,           \* "idle", "send" (awaiting send()), "body" (awaiting
                  \* json() or text()), "done"
    op,           \* the operation in flight or last finished
    args,         \* its arguments
    request,      \* Option<request>: the request handed to send()
    resp_status,  \* Option<status>: the status received
    resp_body,    \* Option<body>: the body the server sent with it
    result,       \* Option<Result<T>>: what the operation returned
    calls,        \* the calls the operation made: "send", "json", "text",
                  \* "from_status"
    sends,        \* calls of send() by the operation
    ncalls,       \* operations started on the client
    deleted,      \* the delete operations among the earlier calls
    last_set,     \* the value last passed to each setter of the builder
    cls,          \* one application of the classifier
    inflight,     \* the calls of concurrent callers on one client
    msg           \* one construction and encoding of a chat message

vars ==
    <<builder, built, transports, client, pc, op, args, request,
      resp_status, resp_body, result, calls, sends, ncalls, deleted,
      last_set, cls, inflight, msg>>
buildVars == <<builder, built, transports, client, last_set>>
callVars ==
    <<pc, op, args, request, resp_status, resp_body, result, calls, sends,
      ncalls, deleted>>
pureVars == <<cls, inflight, msg>>

NoArgs ==
    [agent_access_id |-> "", conversation_id |-> "", item_id |-> "",
     response_id |-> "", query |-> None, collapsed |-> None,
     referer |-> "", origin |-> "",
     request |-> CreateConversationRequest_default]
ClsIdle == [status |-> 200, message |-> None, result |-> None]
NeverSet == [base_url |-> None, token |-> None, timeout |-> None]
Callers == {"a", "b"}
CallIdle ==
    [pc |-> "idle", op |-> "none", args |-> NoArgs, request |-> None,
     resp_status |-> None, resp_body |-> None, result |-> None,
     calls |-> <<>>]
MsgIdle ==
    [ctor |-> "none", text |-> "", items |-> <<>>, message |-> None,
     encoded |-> None, wire |-> None, decoded |-> None, reencoded |-> None]
\* The operations that delete a resource.
DeleteOps ==
    {"delete_conversation", "delete_conversation_item", "delete_response"}
\* How many of the calls cs are calls of c.
Count(cs, c) == Cardinality({i \in DOMAIN cs : cs[i] = c})

\* CloudAIClient::builder(), and no operation started.
Init ==
    /\ builder = Some(ClientBuilder_default)
    /\ built = None
    /\ transports = 0
    /\ client = None
    /\ pc = "idle"
    /\ op = "none"
    /\ args = NoArgs
    /\ request = None
    /\ resp_status = None
    /\ resp_body = None
    /\ result = None
    /\ calls = <<>>
    /\ sends = 0
    /\ ncalls = 0
    /\ deleted = {}
    /\ last_set = NeverSet
    /\ cls = ClsIdle
    /\ inflight = [c \in Callers |-> CallIdle]
    /\ msg = MsgIdle

(***************************************************************************)
(* client.rs: the builder's setters and build().                           *)
(***************************************************************************)
base_url ==
    /\ builder # None
    /\ \E url \in BaseUrls :
          /\ builder' = Some([unwrap(builder) EXCEPT !.base_url = Some(url)])
          /\ last_set' = [last_set EXCEPT !.base_url = Some(url)]
    /\ UNCHANGED <<built, transports, client, callVars, pureVars>>

token ==
    /\ builder # None
    /\ \E t \in Tokens :
          /\ builder' = Some([unwrap(builder) EXCEPT !.token = Some(t)])
          /\ last_set' = [last_set EXCEPT !.token = Some(t)]
    /\ UNCHANGED <<built, transports, client, callVars, pureVars>>

timeout ==
    /\ builder # None
    /\ \E duration \in TimeoutSecs :
          /\ builder' = Some([unwrap(builder) EXCEPT !.timeout = Some(duration)])
          /\ last_set' = [last_set EXCEPT !.timeout = Some(duration)]
    /\ UNCHANGED <<built, transports, client, callVars, pureVars>>

ClientBuilder_build ==
    /\ builder # None
    /\ \E http_ok \in BOOLEAN :
          LET r == build(unwrap(builder), http_ok)
          IN  /\ built' = Some(r.result)
              /\ transports' = transports + r.transport
              /\ client' = IF r.result.ok THEN Some(r.result.value) ELSE None
    /\ builder' = None
    /\ UNCHANGED <<last_set, callVars, pureVars>>

\* The environments a program runs in.
Environments ==
    [base_url : Optional(BaseUrls), token : Optional({"secret-token"})]

\* The program constructs its client with from_env() before it has made
\* a builder of its own.  With the token missing from_env returns at once
\* and the program is left with its builder; otherwise the builder of
\* from_env is the one built, and the setters from_env calls on it are
\* recorded.
CloudAIClient_from_env ==
    /\ builder = Some(ClientBuilder_default)
    /\ built = None
    /\ last_set = NeverSet
    /\ \E env \in Environments, http_ok \in BOOLEAN :
          LET r == from_env(env, http_ok)
          IN  /\ built' = Some(r.result)
              /\ transports' = transports + r.transport
              /\ client' = IF r.result.ok THEN Some(r.result.value) ELSE None
              /\ IF env.token = None
                    THEN UNCHANGED <<builder, last_set>>
                    ELSE /\ builder' = None
                         /\ last_set' =
                               [base_url |->
                                    Some(unwrap_or_else(env.base_url,
                                                        DefaultBaseUrl)),
                                token |-> env.token, timeout |-> None]
    /\ UNCHANGED <<callVars, pureVars>>

(***************************************************************************)
(* The endpoint operations, up to their first await: the request is built  *)
(* and handed to send(), or the operation returns its Err.                 *)
(***************************************************************************)
\* A mutant of Start: the client remembers a deleted response and refuses
\* to cancel, get or delete it again.
Start_lifecycle(name, a, r) ==
    /\ client # None
    /\ pc \in {"idle", "done"}
    /\ ncalls < MaxCalls
    /\ op' = name
    /\ args' = a
    /\ ncalls' = ncalls + 1
    /\ resp_status' = None
    /\ resp_body' = None
    /\ deleted' = IF op \in DeleteOps THEN deleted \cup {op} ELSE deleted
    /\ IF r.ok /\ ~(name \in {"cancel_response", "get_response",
                              "delete_response"}
                    /\ "delete_response" \in deleted')
          THEN /\ request' = Some(r.value)
               /\ calls' = <<"send">>
               /\ sends' = Count(calls', "send")
               /\ result' = None
               /\ pc' = "send"
          ELSE /\ request' = None
               /\ sends' = 0
               /\ calls' = <<>>
               /\ result' = Some(IF r.ok THEN Err(InvalidRequest("deleted"))
                                  ELSE r)
               /\ pc' = "done"
    /\ UNCHANGED <<buildVars, pureVars>>

Start(name, a, r) ==
    /\ client # None
    /\ pc \in {"idle", "done"}
    /\ ncalls < MaxCalls
    /\ op' = name
    /\ args' = a
    /\ ncalls' = ncalls + 1
    /\ resp_status' = None
    /\ resp_body' = None
    /\ deleted' = IF op \in DeleteOps THEN deleted \cup {op} ELSE deleted
    /\ IF r.ok
          THEN /\ request' = Some(r.value)
               /\ calls' = <<"send">>
               /\ sends' = Count(calls', "send")
               /\ result' = None
               /\ pc' = "send"
          ELSE /\ request' = None
               /\ sends' = 0
               /\ calls' = <<>>
               /\ result' = Some(r)
               /\ pc' = "done"
    /\ UNCHANGED <<buildVars, pureVars>>

Config == unwrap(client)

call_agent ==
    \E a \in AgentIds :
        Start("call_agent", [NoArgs EXCEPT !.agent_access_id = a],
              call_agent_request(Config, a))

chat_completions ==
    \E a \in AgentIds :
        Start("chat_completions", [NoArgs EXCEPT !.agent_access_id = a],
              chat_completions_request(Config, a))

text_completions ==
    \E a \in AgentIds :
        Start("text_completions", [NoArgs EXCEPT !.agent_access_id = a],
              text_completions_request(Config, a))

list_models ==
    \E a \in AgentIds :
        Start("list_models", [NoArgs EXCEPT !.agent_access_id = a],
              list_models_request(Config, a))

get_embed_code ==
    \E a \in AgentIds, c \in Optional(BOOLEAN), rf \in Referers, og \in Origins :
        Start("get_embed_code",
              [NoArgs EXCEPT !.agent_access_id = a, !.collapsed = c,
                             !.referer = rf, !.origin = og],
              get_embed_code_request(Config, a, c, rf, og))

create_conversation ==
    \E a \in AgentIds, rq \in CreateConversationRequests :
        Start("create_conversation",
              [NoArgs EXCEPT !.agent_access_id = a, !.request = rq],
              create_conversation_request(Config, a, rq))

get_conversation ==
    \E a \in AgentIds, c \in ConversationIds :
        Start("get_conversation",
              [NoArgs EXCEPT !.agent_access_id = a, !.conversation_id = c],
              get_conversation_request(Config, a, c))

update_conversation ==
    \E a \in AgentIds, c \in ConversationIds :
        Start("update_conversation",
              [NoArgs EXCEPT !.agent_access_id = a, !.conversation_id = c],
              update_conversation_request(Config, a, c))

delete_conversation ==
    \E a \in AgentIds, c \in ConversationIds :
        Start("delete_conversation",
              [NoArgs EXCEPT !.agent_access_id = a, !.conversation_id = c],
              delete_conversation_request(Config, a, c))

list_conversation_items ==
    \E a \in AgentIds, c \in ConversationIds, q \in Optional(ListItemsQueries) :
        Start("list_conversation_items",
              [NoArgs EXCEPT !.agent_access_id = a, !.conversation_id = c,
                             !.query = q],
              list_conversation_items_request(Config, a, c, q))

\* The numbers of items are varied with the query absent, the queries
\* with one item.
create_conversation_items ==
    \E a \in AgentIds, c \in ConversationIds, q \in Optional(IncludeQueries),
       rq \in CreateItemsRequests :
        /\ q = None \/ Len(rq.items) = 1
        /\ Start("create_conversation_items",
                 [NoArgs EXCEPT !.agent_access_id = a, !.conversation_id = c,
                                !.request = rq, !.query = q],
                 create_conversation_items_request(Config, a, c, rq, q))

get_conversation_item ==
    \E a \in AgentIds, c \in ConversationIds, i \in ItemIds,
       q \in Optional(IncludeQueries) :
        Start("get_conversation_item",
              [NoArgs EXCEPT !.agent_access_id = a, !.conversation_id = c,
                             !.item_id = i, !.query = q],
              get_conversation_item_request(Config, a, c, i, q))

delete_conversation_item ==
    \E a \in AgentIds, c \in ConversationIds, i \in ItemIds :
        Start("delete_conversation_item",
              [NoArgs EXCEPT !.agent_access_id = a, !.conversation_id = c,
                             !.item_id = i],
              delete_conversation_item_request(Config, a, c, i))

create_response ==
    \E a \in AgentIds :
        Start("create_response", [NoArgs EXCEPT !.agent_access_id = a],
              create_response_request(Config, a))

get_response ==
    \E a \in AgentIds, r \in ResponseIds, q \in Optional(GetResponseQueries) :
        Start("get_response",
              [NoArgs EXCEPT !.agent_access_id = a, !.response_id = r,
                             !.query = q],
              get_response_request(Config, a, r, q))

delete_response ==
    \E a \in AgentIds, r \in ResponseIds :
        Start("delete_response",
              [NoArgs EXCEPT !.agent_access_id = a, !.response_id = r],
              delete_response_request(Config, a, r))

cancel_response ==
    \E a \in AgentIds, r \in ResponseIds :
        Start("cancel_response",
              [NoArgs EXCEPT !.agent_access_id = a, !.response_id = r],
              cancel_response_request(Config, a, r))

(***************************************************************************)
(* The awaits.                                                             *)
(***************************************************************************)
\* send() fails: no status was received.
SendFailed ==
    /\ pc = "send"
    /\ LET r == send_failed(op)
       IN  /\ result' = Some(r.result)
           /\ calls' = calls \o r.calls
           /\ sends' = sends + Count(r.calls, "send")
    /\ pc' = "done"
    /\ UNCHANGED <<buildVars, op, args, request, resp_status, resp_body,
                   ncalls, deleted, pureVars>>

\* send() returns a response (a status, and the body the server sent with
\* it): the operation looks at the status and either returns or awaits
\* the body.
SendResponded ==
    /\ pc = "send"
    /\ \E status \in Statuses, b \in Bodies :
          /\ <<status, b>> \in Responses
          /\ resp_status' = Some(status)
          /\ resp_body' = Some(b)
          /\ IF AwaitsBody(op, status, b)
                THEN /\ pc' = "body"
                     /\ UNCHANGED <<result, calls, sends>>
                ELSE LET r == Respond(op, status, b)
                     IN  /\ result' = Some(r.result)
                         /\ calls' = calls \o r.calls
                         /\ sends' = sends + Count(r.calls, "send")
                         /\ pc' = "done"
    /\ UNCHANGED <<buildVars, op, args, request, ncalls, deleted, pureVars>>

\* The awaited json() or text() completes.
BodyArrived ==
    /\ pc = "body"
    /\ LET r == Respond(op, unwrap(resp_status), unwrap(resp_body))
       IN  /\ result' = Some(r.result)
           /\ calls' = calls \o r.calls
           /\ sends' = sends + Count(r.calls, "send")
    /\ pc' = "done"
    /\ UNCHANGED <<buildVars, op, args, request, resp_status, resp_body,
                   ncalls, deleted, pureVars>>

Next ==
    \/ base_url \/ token \/ timeout \/ ClientBuilder_build
    \/ CloudAIClient_from_env
    \/ call_agent \/ chat_completions \/ text_completions \/ list_models
    \/ get_embed_code
    \/ create_conversation \/ get_conversation \/ update_conversation
    \/ delete_conversation \/ list_conversation_items
    \/ create_conversation_items \/ get_conversation_item
    \/ delete_conversation_item
    \/ create_response \/ get_response \/ delete_response \/ cancel_response
    \/ SendFailed \/ SendResponded \/ BodyArrived

Spec == Init /\ [][Next]_vars

(***************************************************************************)
(* The classifier alone, on every status and on an absent, an empty and a  *)
(* non-empty message.                                                      *)
(***************************************************************************)
Messages == {"", "boom"}

InitClassify ==
    /\ builder = Some(ClientBuilder_default)
    /\ built = None
    /\ transports = 0
    /\ client = None
    /\ pc = "idle"
    /\ op = "none"
    /\ args = NoArgs
    /\ request = None
    /\ resp_status = None
    /\ resp_body = None
    /\ result = None
    /\ calls = <<>>
    /\ sends = 0
    /\ ncalls = 0
    /\ deleted = {}
    /\ last_set = NeverSet
    /\ cls \in [status : MinStatus..MaxStatus, message : Optional(Messages),
               result : {None}]
    /\ inflight = [c \in Callers |-> CallIdle]
    /\ msg = MsgIdle

Classify ==
    /\ cls.result = None
    /\ cls' = [cls EXCEPT !.result = Some(from_status(cls.status, cls.message))]
    /\ UNCHANGED <<buildVars, callVars, inflight, msg>>

NextClassify == Classify

SpecClassify == InitClassify /\ [][NextClassify]_vars

(***************************************************************************)
(* Properties.                                                             *)
(***************************************************************************)
\* The kind the classifier contract names for a status, by precedence.
ExpectedKind(s) ==
    IF s = 401 THEN "Unauthorized"
    ELSE IF s = 403 THEN "Forbidden"
    ELSE IF s = 404 THEN "NotFound"
    ELSE IF s \in 500..599 THEN "ServerError"
    ELSE "InvalidRequest"

\* C1: for every non-2xx status the classifier yields exactly one error
\* kind of TwcError, the one the precedence 401, 403, 404, 500..599,
\* everything else names, and the kind is the same whatever the message.
C1_KindByStatusAlone ==
    (cls.result # None /\ ~is_success(cls.status)) =>
        /\ unwrap(cls.result).kind = ExpectedKind(cls.status)
        /\ unwrap(cls.result).kind \in TwcErrorKinds
        /\ \A m \in Optional(Messages) :
              from_status(cls.status, m).kind = unwrap(cls.result).kind

C1_Witness ==
    /\ cls.result # None
    /\ cls.status = 599
    /\ cls.message = Some("boom")
    /\ unwrap(cls.result).kind = "ServerError"

\* C2: a present message becomes the error's message; an absent one gives
\* "Resource not found" for 404, "Internal server error" for 5xx and
\* "Bad request" for the other statuses; ServerError carries the status
\* received; classify(500, "boom") is ServerError{500, "boom"}.
C2_MessageOrDefault ==
    (cls.result # None /\ ~is_success(cls.status)) =>
        LET e == unwrap(cls.result)
            carries == e.kind \in {"NotFound", "ServerError", "InvalidRequest"}
        IN  /\ (carries /\ cls.message # None) =>
                   e.message = unwrap(cls.message)
            /\ (cls.message = None /\ e.kind = "NotFound") =>
                   e = NotFound("Resource not found")
            /\ (cls.message = None /\ e.kind = "ServerError") =>
                   e.message = "Internal server error"
            /\ (cls.message = None /\ e.kind = "InvalidRequest") =>
                   e = InvalidRequest("Bad request")
            /\ e.kind = "ServerError" => e.status = cls.status
            /\ (cls.status = 500 /\ cls.message = Some("boom")) =>
                   e = [kind |-> "ServerError", status |-> 500,
                        message |-> "boom"]
            /\ (cls.status = 404 /\ cls.message = None) =>
                   e = [kind |-> "NotFound", message |-> "Resource not found"]
            /\ (cls.status = 402 /\ cls.message = None) =>
                   e = [kind |-> "InvalidRequest", message |-> "Bad request"]

C2_Witness ==
    /\ cls.status = 503
    /\ cls.message = None
    /\ cls.result = Some(ServerError(503, "Internal server error"))

\* C3: build() on a builder whose token was never set returns the
\* Configuration error without creating a transport handle and without
\* any request; build() returns a client only if the token was set.
\* (A step of build() takes the builder and calls no setter.)
C3_BuildWithoutToken ==
    [][(builder # None /\ builder' = None /\ last_set' = last_set) =>
          /\ unwrap(builder).token = None =>
                /\ built' = Some(Err(Configuration("Token is required")))
                /\ transports' = transports
                /\ client' = None
                /\ sends' = 0 /\ ncalls' = 0 /\ request' = None
          /\ client' # None =>
                /\ unwrap(builder).token # None
                /\ unwrap(client').token = unwrap(unwrap(builder).token)]_vars

C3_Witness ==
    /\ built = Some(Err(Configuration("Token is required")))
    /\ transports = 0
    /\ client = None

\* The operations whose response goes through a handle_response.
JsonOps == ClientOps \cup ConversationsOps \cup ResponsesOps

\* A response was received and the operation has returned.
Responded == pc = "done" /\ resp_status # None

\* C4: when the body of a 2xx response does not decode into the expected
\* type, the operation returns the DecodeFailure kind (TwcError::Json, a
\* kind other than the TransportFailure kind TwcError::Http), sends nothing
\* further and does not call the classifier.
C4_DecodeFailureKind ==
    (/\ Responded
     /\ op \in JsonOps
     /\ is_success(unwrap(resp_status))
     /\ unwrap(resp_body).readable
     /\ ~unwrap(resp_body).valid) =>
        /\ ~unwrap(result).ok
        /\ unwrap(result).error.kind = "Json"
        /\ unwrap(result).error.kind # "Http"
        /\ sends = 1
        /\ "from_status" \notin Range(calls)

\* C5: when send() fails and no status is received, every endpoint
\* operation returns TwcError::Http, and neither the body decoder nor the
\* status classifier is called.
C5_TransportFailure ==
    (pc = "done" /\ request # None /\ resp_status = None) =>
        /\ op \in Operations
        /\ result = Some(Err(Http))
        /\ calls = <<"send">>
        /\ sends = 1

C5_Witness ==
    /\ pc = "done"
    /\ op = "delete_response"
    /\ request # None
    /\ resp_status = None
    /\ result = Some(Err(Http))

\* C6: for every endpoint operation, get_embed_code and delete_response
\* included, the readable (here non-empty) body text of a non-2xx response
\* is the message of the NotFound / InvalidRequest / ServerError the
\* operation returns.
C6_BodyTextIsMessage ==
    (/\ Responded
     /\ ~is_success(unwrap(resp_status))
     /\ unwrap(resp_body).readable
     /\ unwrap(resp_body).text # ""
     /\ ~unwrap(result).ok
     /\ unwrap(result).error.kind
            \in {"NotFound", "InvalidRequest", "ServerError"}) =>
        unwrap(result).error.message = unwrap(resp_body).text

\* C7: every request sent by any endpoint operation carries the header
\* x-proxy-source: twcai-rust.
C7_ProxySourceOnEveryRequest ==
    request # None =>
        <<"x-proxy-source", "twcai-rust">> \in unwrap(request).headers

\* C8: every request sent by an operation other than get_embed_code
\* carries exactly one Authorization header, "Bearer " followed by the
\* credential the client was built with.
C8_BearerOnAuthenticated ==
    (request # None /\ op # "get_embed_code") =>
        /\ built = Some(Ok(Config))
        /\ HeaderValues(unwrap(request), AUTHORIZATION)
              = {"Bearer " \o Config.token}

C8_Witness ==
    /\ op = "list_models"
    /\ request # None
    /\ Config.token = "other-token"
    /\ <<"authorization", "Bearer other-token">> \in unwrap(request).headers

\* C9: the request of get_embed_code has no Authorization header, carries
\* the caller's referer and origin, and is the same request whatever the
\* client's credential.
C9_EmbedUnauthenticated ==
    (request # None /\ op = "get_embed_code") =>
        /\ AUTHORIZATION \notin HeaderNames(unwrap(request))
        /\ HeaderValues(unwrap(request), "referer") = {args.referer}
        /\ HeaderValues(unwrap(request), "origin") = {args.origin}
        /\ \A t \in Tokens :
              get_embed_code_request(
                  [Config EXCEPT !.token = t], args.agent_access_id,
                  args.collapsed, args.referer, args.origin)
                = Ok(unwrap(request))

C9_Witness ==
    /\ op = "get_embed_code"
    /\ request # None
    /\ Config.token = "other-token"
    /\ args.collapsed = Some(TRUE)

\* What C10 says of the non-2xx statuses and of delete_response.
C10_Common ==
    /\ (Responded /\ op \in {"get_embed_code", "delete_response"}) =>
          /\ "json" \notin Range(calls)
          /\ ~is_success(unwrap(resp_status)) =>
                /\ ~unwrap(result).ok
                /\ unwrap(result).error.kind
                      = ExpectedKind(unwrap(resp_status))
                /\ "from_status" \in Range(calls)
    /\ (Responded /\ op = "delete_response") =>
          /\ "text" \notin Range(calls)
          /\ is_success(unwrap(resp_status)) => result = Some(Ok(<<>>))

\* C10 as stated: get_embed_code and delete_response never JSON-decode;
\* get_embed_code returns the raw body text on any 2xx status;
\* delete_response returns Ok(()) on 204 and any other 2xx without reading
\* the body; both return the classifier's error on every non-2xx status.
C10_Original ==
    /\ C10_Common
    /\ (Responded /\ op = "get_embed_code"
            /\ is_success(unwrap(resp_status))) =>
          result = Some(Ok(unwrap(resp_body).text))

\* C10 amended: as stated, except that get_embed_code returns the raw body
\* text on a 2xx status when reading the body succeeds, and TwcError::Http
\* when reading it fails.
C10_SpecialCased ==
    /\ C10_Common
    /\ (Responded /\ op = "get_embed_code"
            /\ is_success(unwrap(resp_status))) =>
          /\ unwrap(resp_body).readable =>
                result = Some(Ok(unwrap(resp_body).text))
          /\ ~unwrap(resp_body).readable => result = Some(Err(Http))

C10_Witness ==
    /\ Responded
    /\ op = "get_embed_code"
    /\ resp_status = Some(204)
    /\ unwrap(resp_body).text = JsonText
    /\ result = Some(Ok(JsonText))

\* The operations that take an optional query value.
QueryOps ==
    {"list_conversation_items", "create_conversation_items",
     "get_conversation_item", "get_response"}

\* The path of each operation as the interface names it, with the
\* identifiers of the call a interpolated.
PathOf(o, a) ==
    LET agent == "/api/v1/cloud-ai/agents/" \o a.agent_access_id
        conv == agent \o "/v1/conversations/" \o a.conversation_id
        resp == agent \o "/v1/responses/" \o a.response_id
    IN  CASE o = "call_agent" -> agent \o "/call"
          [] o = "chat_completions" -> agent \o "/v1/chat/completions"
          [] o = "text_completions" -> agent \o "/v1/completions"
          [] o = "list_models" -> agent \o "/v1/models"
          [] o = "get_embed_code" -> agent \o "/embed.js"
          [] o = "create_conversation" -> agent \o "/v1/conversations"
          [] o = "get_conversation" -> conv
          [] o = "update_conversation" -> conv
          [] o = "delete_conversation" -> conv
          [] o = "list_conversation_items" -> conv \o "/items"
          [] o = "create_conversation_items" -> conv \o "/items"
          [] o = "get_conversation_item" -> conv \o "/items/" \o a.item_id
          [] o = "delete_conversation_item" -> conv \o "/items/" \o a.item_id
          [] o = "create_response" -> agent \o "/v1/responses"
          [] o = "get_response" -> resp
          [] o = "delete_response" -> resp
          [] o = "cancel_response" -> resp \o "/cancel"

\* The Default value of the query type of a query-taking operation.
DefaultQuery(o) ==
    CASE o = "list_conversation_items" -> ListItemsQuery_default
      [] o = "get_response" -> GetResponseQuery_default
      [] o \in {"create_conversation_items", "get_conversation_item"} ->
            IncludeQuery_default

\* C11: a query-taking operation called with no query, or with the Default
\* query, sends to exactly base + path with no "?"; with scalar fields set
\* it sends to base + path + "?" + the set fields as key=value pairs in
\* declaration order, form-urlencoded, joined by "&" (limit = 10 alone
\* gives "?limit=10").
C11_QueryString ==
    (op \in QueryOps /\ request # None) =>
        LET u == unwrap(request).url
            bare == Config.base_url \o PathOf(op, args)
            q == args.query
        IN  /\ (q = None \/ q = Some(DefaultQuery(op))) => u = bare
            /\ (op = "list_conversation_items" /\ q # None) =>
                  LET l == unwrap(q)
                  IN  /\ (l.limit = Some(10) /\ l.after = None
                            /\ l.order = None) => u = bare \o "?limit=10"
                      /\ (l.limit = Some(10) /\ l.after = Some("msg 1&x")
                            /\ l.order = Some("desc")) =>
                            u = bare \o "?after=msg+1%26x&limit=10&order=desc"
            /\ (op = "get_response" /\ q # None) =>
                  LET g == unwrap(q)
                  IN  (g.starting_after = Some(5) /\ g.stream = Some(TRUE)
                        /\ g.include_obfuscation = None) =>
                         u = bare \o "?starting_after=5&stream=true"

C11_Witness ==
    /\ pc = "done"
    /\ op = "list_conversation_items"
    /\ args.query = Some([ListItemsQuery_default EXCEPT !.limit = Some(10)])
    /\ request # None
    /\ unwrap(request).url =
          "https://custom.example.com/api/v1/cloud-ai/agents/agent-123"
              \o "/v1/conversations/conv_1/items?limit=10"
    /\ sends = 1

\* C12: a query-taking operation called with include = ["a", "b"] sends a
\* request (one whose query string represents both values).
C12_IncludeSent ==
    (/\ op \in QueryOps
     /\ pc = "done"
     /\ args.query # None
     /\ unwrap(args.query).include = Some(<<"a", "b">>)) =>
        /\ request # None
        /\ sends = 1
        /\ unwrap(request).url # Config.base_url \o PathOf(op, args)

\* C13: every call of an endpoint operation performs at most one send:
\* once it has returned after building its request it has sent exactly
\* once, whether the send failed, the status was not 2xx, the body did not
\* decode or the page decoded says has_more; and it returns Ok only from a
\* response received in that call.
C13_AtMostOneSend ==
    /\ sends <= 1
    /\ Count(calls, "send") = sends
    /\ (pc = "done" /\ request # None) => sends = 1
    /\ (pc = "done" /\ request = None) => sends = 0
    /\ (result # None /\ unwrap(result).ok) =>
          (sends = 1 /\ resp_status # None)

C13_Witness ==
    /\ pc = "done"
    /\ op = "list_conversation_items"
    /\ resp_status = Some(200)
    /\ unwrap(resp_body).text = ListPageText
    /\ unwrap(result).ok
    /\ calls = <<"send", "json">>
    /\ sends = 1
    /\ ncalls = 1

\* What operation o builds from config and the arguments a: Ok(request)
\* or the Err it returns before sending.
RequestOf(config, o, a) ==
    LET ag == a.agent_access_id
        cv == a.conversation_id
    IN  CASE o = "call_agent" -> call_agent_request(config, ag)
          [] o = "chat_completions" -> chat_completions_request(config, ag)
          [] o = "text_completions" -> text_completions_request(config, ag)
          [] o = "list_models" -> list_models_request(config, ag)
          [] o = "get_embed_code" ->
                get_embed_code_request(config, ag, a.collapsed, a.referer,
                                       a.origin)
          [] o = "create_conversation" ->
                create_conversation_request(config, ag, a.request)
          [] o = "get_conversation" -> get_conversation_request(config, ag, cv)
          [] o = "update_conversation" ->
                update_conversation_request(config, ag, cv)
          [] o = "delete_conversation" ->
                delete_conversation_request(config, ag, cv)
          [] o = "list_conversation_items" ->
                list_conversation_items_request(config, ag, cv, a.query)
          [] o = "create_conversation_items" ->
                create_conversation_items_request(config, ag, cv, a.request,
                                                  a.query)
          [] o = "get_conversation_item" ->
                get_conversation_item_request(config, ag, cv, a.item_id,
                                              a.query)
          [] o = "delete_conversation_item" ->
                delete_conversation_item_request(config, ag, cv, a.item_id)
          [] o = "create_response" -> create_response_request(config, ag)
          [] o = "get_response" ->
                get_response_request(config, ag, a.response_id, a.query)
          [] o = "delete_response" ->
                delete_response_request(config, ag, a.response_id)
          [] o = "cancel_response" ->
                cancel_response_request(config, ag, a.response_id)

\* C14: the client keeps no lifecycle state.  Whatever the earlier calls
\* were (a delete before a cancel, a delete before a delete), a call that
\* starts is dispatched with the request its own arguments give, and what
\* it returns is what the response to that call gives: the transport error
\* when the send failed, and otherwise the outcome of its status and body.
C14_NoLifecycle ==
    /\ [][ncalls' = ncalls + 1 =>
            LET r == RequestOf(Config, op', args')
            IN  IF r.ok
                    THEN /\ pc' = "send"
                         /\ request' = Some(r.value)
                         /\ sends' = 1
                         /\ result' = None
                    ELSE /\ pc' = "done"
                         /\ result' = Some(r)]_vars
    /\ [](Responded =>
            result = Some(Respond(op, unwrap(resp_status),
                                  unwrap(resp_body)).result))
    /\ []((pc = "done" /\ request # None /\ resp_status = None) =>
            result = Some(Err(Http)))

C14_Witness ==
    /\ ncalls = 2
    /\ deleted = {"delete_response"}
    /\ op = "cancel_response"
    /\ pc = "done"
    /\ sends = 1
    /\ resp_status = Some(200)
    /\ unwrap(result).ok

(***************************************************************************)
(* Concurrent callers.  CloudAIClient is Clone and its operations take     *)
(* &self: caller "a" calls on the built client and caller "b" on a clone   *)
(* of it, each one operation, and their awaits interleave.                 *)
(***************************************************************************)
\* #[derive(Clone)] of ClientConfig: field by field (the Arc<str> and the
\* reqwest::Client are shared handles).
ClientConfig_clone(config) ==
    [base_url |-> config.base_url, token |-> config.token,
     http_client |-> config.http_client]

\* The config a caller's handle gives.
ConfigOf(c) == IF c = "a" THEN Config ELSE ClientConfig_clone(Config)

\* The responses the concurrent callers receive.
ConcurrentStatuses == {200, 404}
ConcurrentBodies ==
    {b \in Bodies : b.readable /\ b.text \in {"boom", JsonText}}

InitConcurrent ==
    /\ \E u \in BaseUrls \cup {DefaultBaseUrl}, t \in Tokens :
          LET b == [ClientBuilder_default EXCEPT !.base_url = Some(u),
                                                 !.token = Some(t)]
              r == build(b, TRUE)
          IN  /\ built = Some(r.result)
              /\ transports = r.transport
              /\ client = Some(r.result.value)
              /\ last_set = [NeverSet EXCEPT !.base_url = Some(u),
                                             !.token = Some(t)]
    /\ builder = None
    /\ pc = "idle"
    /\ op = "none"
    /\ args = NoArgs
    /\ request = None
    /\ resp_status = None
    /\ resp_body = None
    /\ result = None
    /\ calls = <<>>
    /\ sends = 0
    /\ ncalls = 0
    /\ deleted = {}
    /\ cls = ClsIdle
    /\ inflight = [c \in Callers |-> CallIdle]
    /\ msg = MsgIdle

\* Caller c starts an operation: up to its first await.
CallerStart(c) ==
    /\ inflight[c].pc = "idle"
    /\ \E o \in Operations, ag \in AgentIds, cv \in ConversationIds,
          it \in ItemIds, rs \in ResponseIds, rf \in Referers,
          og \in Origins :
          LET a == [NoArgs EXCEPT !.agent_access_id = ag,
                                  !.conversation_id = cv, !.item_id = it,
                                  !.response_id = rs, !.referer = rf,
                                  !.origin = og,
                                  !.request =
                                      IF o = "create_conversation_items"
                                          THEN [items |-> Items(1)]
                                          ELSE CreateConversationRequest_default]
              r == RequestOf(ConfigOf(c), o, a)
          IN  inflight' =
                [inflight EXCEPT ![c] =
                    [CallIdle EXCEPT
                        !.op = o, !.args = a,
                        !.request = IF r.ok THEN Some(r.value) ELSE None,
                        !.calls = IF r.ok THEN <<"send">> ELSE <<>>,
                        !.result = IF r.ok THEN None ELSE Some(r),
                        !.pc = IF r.ok THEN "send" ELSE "done"]]
    /\ UNCHANGED <<buildVars, callVars, cls, msg>>

\* The send() of caller c fails.
CallerSendFailed(c) ==
    /\ inflight[c].pc = "send"
    /\ LET r == send_failed(inflight[c].op)
       IN  inflight' =
             [inflight EXCEPT ![c].result = Some(r.result),
                              ![c].calls = @ \o r.calls,
                              ![c].pc = "done"]
    /\ UNCHANGED <<buildVars, callVars, cls, msg>>

\* The send() of caller c returns a response.
CallerSendResponded(c) ==
    /\ inflight[c].pc = "send"
    /\ \E status \in ConcurrentStatuses, b \in ConcurrentBodies :
          LET o == inflight[c].op
              r == Respond(o, status, b)
          IN  inflight' =
                IF AwaitsBody(o, status, b)
                    THEN [inflight EXCEPT ![c].resp_status = Some(status),
                                          ![c].resp_body = Some(b),
                                          ![c].pc = "body"]
                    ELSE [inflight EXCEPT ![c].resp_status = Some(status),
                                          ![c].resp_body = Some(b),
                                          ![c].result = Some(r.result),
                                          ![c].calls = @ \o r.calls,
                                          ![c].pc = "done"]
    /\ UNCHANGED <<buildVars, callVars, cls, msg>>

\* The json() or text() caller c awaits completes.
CallerBodyArrived(c) ==
    /\ inflight[c].pc = "body"
    /\ LET r == Respond(inflight[c].op, unwrap(inflight[c].resp_status),
                        unwrap(inflight[c].resp_body))
       IN  inflight' =
             [inflight EXCEPT ![c].result = Some(r.result),
                              ![c].calls = @ \o r.calls,
                              ![c].pc = "done"]
    /\ UNCHANGED <<buildVars, callVars, cls, msg>>

NextConcurrent ==
    \E c \in Callers :
        \/ CallerStart(c)
        \/ CallerSendFailed(c)
        \/ CallerSendResponded(c)
        \/ CallerBodyArrived(c)

SpecConcurrent == InitConcurrent /\ [][NextConcurrent]_vars

\* Whether string s starts with string p.
StartsWith(s, p) == Len(s) >= Len(p) /\ SubSeq(s, 1, Len(p)) = p

\* C15: no step of an endpoint operation changes the client built (its
\* base address, credential and transport handle), and in every
\* interleaving of two callers, one on the client and one on a clone,
\* every request built is sent to the base address build() stored, on the
\* path of its operation, and carries, when the operation authenticates,
\* "Bearer " and the credential build() stored.
C15_ConfigImmutable ==
    /\ [][client' = client /\ built' = built]_vars
    /\ [](\A c \in Callers :
            inflight[c].request # None =>
                LET cfg == unwrap(built).value
                    rq == unwrap(inflight[c].request)
                    o == inflight[c].op
                IN  /\ cfg.base_url = unwrap(last_set.base_url)
                    /\ cfg.token = unwrap(last_set.token)
                    /\ StartsWith(rq.url,
                                  cfg.base_url \o PathOf(o, inflight[c].args))
                    /\ (o # "get_embed_code") =>
                          HeaderValues(rq, AUTHORIZATION) =
                              {"Bearer " \o cfg.token})

C15_Witness ==
    /\ inflight["a"].pc = "send"
    /\ inflight["a"].op = "call_agent"
    /\ inflight["b"].pc = "body"
    /\ inflight["b"].op = "get_response"
    /\ unwrap(client).base_url = "https://custom.example.com"
    /\ unwrap(inflight["a"].request).url =
          "https://custom.example.com/api/v1/cloud-ai/agents/agent-123/call"
    /\ HeaderValues(unwrap(inflight["b"].request), AUTHORIZATION) =
          {"Bearer other-token"}

\* C16: a client build() returned holds the base address and the
\* credential last passed to base_url() and token(); with base_url() never
\* called its base address is "https://agent.timeweb.cloud", and with
\* timeout() never called its request timeout is 120 seconds (otherwise the
\* timeout last passed).
C16_BuiltFromSetters ==
    client # None =>
        LET c == unwrap(client)
        IN  /\ built = Some(Ok(c))
            /\ last_set.token # None
            /\ c.token = unwrap(last_set.token)
            /\ c.base_url =
                  IF last_set.base_url = None
                      THEN "https://agent.timeweb.cloud"
                      ELSE unwrap(last_set.base_url)
            /\ c.http_client.timeout =
                  IF last_set.timeout = None THEN 120
                  ELSE unwrap(last_set.timeout)

C16_Witness ==
    /\ client # None
    /\ last_set = [base_url |-> Some("https://custom.example.com"),
                   token |-> Some("other-token"), timeout |-> None]
    /\ unwrap(client).base_url = "https://custom.example.com"
    /\ unwrap(client).token = "other-token"
    /\ unwrap(client).http_client.timeout = 120

\* The verb of each operation as the interface names it.
MethodOf(o) ==
    CASE o \in {"call_agent", "chat_completions", "text_completions",
                "create_conversation", "update_conversation",
                "create_conversation_items", "create_response",
                "cancel_response"} -> "POST"
      [] o \in {"list_models", "get_embed_code", "get_conversation",
                "list_conversation_items", "get_conversation_item",
                "get_response"} -> "GET"
      [] o \in {"delete_conversation", "delete_conversation_item",
                "delete_response"} -> "DELETE"

\* C17: every request an operation sends has the verb of the operation
\* and the URL base address + the operation's path with the identifiers
\* of the call interpolated as given; after the path comes nothing, or,
\* for the operations that take one, "?" and the query.
C17_VerbAndPath ==
    request # None =>
        LET rq == unwrap(request)
            target == Config.base_url \o PathOf(op, args)
        IN  /\ op \in Operations
            /\ rq.method = MethodOf(op)
            /\ StartsWith(rq.url, target)
            /\ (rq.url # target) =>
                  /\ op \in QueryOps \cup {"get_embed_code"}
                  /\ StartsWith(rq.url, target \o "?")

C17_Witness ==
    /\ pc = "send"
    /\ op = "cancel_response"
    /\ unwrap(request).method = "POST"
    /\ unwrap(request).url =
          "https://custom.example.com/api/v1/cloud-ai/agents/agent-123"
              \o "/v1/responses/resp_1/cancel"

\* C18: text_completions does what chat_completions does with the same
\* client, agent and response: its request is the chat_completions request
\* (POST, bearer header, x-proxy-source header, JSON body) with the path
\* suffix /v1/completions in place of /v1/chat/completions, it sends once,
\* and it returns what chat_completions returns for the failed send or for
\* the status and body received, by the same calls.
C18_TextLikeChat ==
    (op = "text_completions" /\ pc # "idle") =>
        LET ag == args.agent_access_id
            chat == chat_completions_request(Config, ag)
        IN  /\ chat.ok /\ request # None
            /\ unwrap(request) =
                  [chat.value EXCEPT
                     !.url = Config.base_url \o "/api/v1/cloud-ai/agents/"
                                 \o ag \o "/v1/completions"]
            /\ chat.value.url =
                  Config.base_url \o "/api/v1/cloud-ai/agents/" \o ag
                      \o "/v1/chat/completions"
            /\ unwrap(request).method = "POST"
            /\ {AUTHORIZATION, "x-proxy-source", "content-type"} \subseteq
                  HeaderNames(unwrap(request))
            /\ sends = 1
            /\ (pc = "done" /\ resp_status = None) =>
                  /\ result = Some(send_failed("chat_completions").result)
                  /\ calls = <<"send">> \o send_failed("chat_completions").calls
            /\ Responded =>
                  LET r == Respond("chat_completions", unwrap(resp_status),
                                   unwrap(resp_body))
                  IN  /\ result = Some(r.result)
                      /\ calls = <<"send">> \o r.calls

C18_Witness ==
    /\ op = "text_completions"
    /\ pc = "done"
    /\ resp_status = Some(404)
    /\ unwrap(resp_body).text = "boom"
    /\ result = Some(Err(NotFound("boom")))
    /\ calls = <<"send", "text", "from_status">>
    /\ "/v1/completions" =
          SubSeq(unwrap(request).url, Len(unwrap(request).url) - 14,
                 Len(unwrap(request).url))

(***************************************************************************)
(* The message and content model.  A Rust enum value is the tuple of its   *)
(* variant and its payload.                                                *)
(***************************************************************************)
\* types/common.rs: the payload structs, as the fields in declaration order.
TextContent(content_type, text) ==
    [content_type |-> content_type, text |-> text]
ImageUrl(url, detail) == [url |-> url, detail |-> detail]
ImageUrlContent(content_type, image_url) ==
    [content_type |-> content_type, image_url |-> image_url]
InputAudio(data, format) == [data |-> data, format |-> format]
InputAudioContent(content_type, input_audio) ==
    [content_type |-> content_type, input_audio |-> input_audio]
FileContent(content_type, file) == [content_type |-> content_type, file |-> file]
RefusalContent(content_type, refusal) ==
    [content_type |-> content_type, refusal |-> refusal]

\* #[derive(Serialize)] of the payload structs: every field is written,
\* content_type under the name "type", an Option that is None as null.
TextContent_serialize(c) ==
    JObject(<<<<"type", JString(c.content_type)>>,
              <<"text", JString(c.text)>>>>)
ImageUrl_serialize(u) ==
    JObject(<<<<"url", JString(u.url)>>,
              <<"detail", IF u.detail = None THEN JNull
                          ELSE JString(unwrap(u.detail))>>>>)
ImageUrlContent_serialize(c) ==
    JObject(<<<<"type", JString(c.content_type)>>,
              <<"image_url", ImageUrl_serialize(c.image_url)>>>>)
InputAudio_serialize(a) ==
    JObject(<<<<"data", JString(a.data)>>, <<"format", JString(a.format)>>>>)
InputAudioContent_serialize(c) ==
    JObject(<<<<"type", JString(c.content_type)>>,
              <<"input_audio", InputAudio_serialize(c.input_audio)>>>>)
FileContent_serialize(c) ==
    JObject(<<<<"type", JString(c.content_type)>>, <<"file", c.file>>>>)
RefusalContent_serialize(c) ==
    JObject(<<<<"type", JString(c.content_type)>>,
              <<"refusal", JString(c.refusal)>>>>)

\* The value of member key of the object members, None when it has none.
json_get(members, key) ==
    LET at == {i \in DOMAIN members : members[i][1] = key}
    IN  IF at = {} THEN None
        ELSE Some(members[CHOOSE i \in at : \A k \in at : i <= k][2])
IsJString(j) == j[1] = "string"
IsJObject(j) == j[1] = "object"

(***************************************************************************)
(* #[derive(Deserialize)] of a struct.  StructFields gives, per struct,    *)
(* its fields in declaration order: the JSON key, the Rust name and the    *)
(* type.  The derived visitor takes an object (visit_map) or an array      *)
(* (visit_seq).                                                            *)
(***************************************************************************)
Field_(key, name, ty) == [key |-> key, name |-> name, ty |-> ty]
StructFields(s) ==
    CASE s = "TextContent" ->
            <<Field_("type", "content_type", "String"),
              Field_("text", "text", "String")>>
      [] s = "ImageUrl" ->
            <<Field_("url", "url", "String"),
              Field_("detail", "detail", "Option<String>")>>
      [] s = "ImageUrlContent" ->
            <<Field_("type", "content_type", "String"),
              Field_("image_url", "image_url", "ImageUrl")>>
      [] s = "InputAudio" ->
            <<Field_("data", "data", "String"),
              Field_("format", "format", "String")>>
      [] s = "InputAudioContent" ->
            <<Field_("type", "content_type", "String"),
              Field_("input_audio", "input_audio", "InputAudio")>>
      [] s = "FileContent" ->
            <<Field_("type", "content_type", "String"),
              Field_("file", "file", "Value")>>
      [] s = "RefusalContent" ->
            <<Field_("type", "content_type", "String"),
              Field_("refusal", "refusal", "String")>>
      [] s = "ResponseUsage" ->
            <<Field_("prompt_tokens", "prompt_tokens", "u32"),
              Field_("completion_tokens", "completion_tokens", "u32"),
              Field_("total_tokens", "total_tokens", "u32")>>
      [] s = "Response" ->
            <<Field_("id", "id", "String"),
              Field_("object", "object", "String"),
              Field_("created_at", "created_at", "i64"),
              Field_("model", "model", "String"),
              Field_("status", "status", "String"),
              Field_("usage", "usage", "ResponseUsage")>>

\* The decoded struct: its fields by name, read from the values seen under
\* their keys; a field never seen (an Option, since any other is a missing
\* field) is None.
struct_value(fs, seen) ==
    [n \in {fs[k].name : k \in DOMAIN fs} |->
        IF fs[CHOOSE k \in DOMAIN fs : fs[k].name = n].key \in DOMAIN seen
            THEN seen[fs[CHOOSE k \in DOMAIN fs : fs[k].name = n].key]
        ELSE None]

\* The type a member is decoded as: the type of the field its key names,
\* and any value when it names none (the member is skipped).
field_type(fs, key) ==
    IF \A k \in DOMAIN fs : fs[k].key # key THEN "Value"
    ELSE fs[CHOOSE k \in DOMAIN fs : fs[k].key = key].ty

\* The end of visit_map: r is the error met among the members, or the
\* values seen.  The first field, in declaration order, that was not seen
\* and is not an Option is the missing field.
visit_map_end(fs, r) ==
    IF ~r.ok THEN r
    ELSE IF \E k \in DOMAIN fs : /\ fs[k].key \notin DOMAIN r.value
                                 /\ fs[k].ty # "Option<String>"
        THEN Err("missing field "
                   \o fs[CHOOSE k \in DOMAIN fs :
                            /\ fs[k].key \notin DOMAIN r.value
                            /\ fs[k].ty # "Option<String>"
                            /\ \A m \in 1..(k - 1) :
                                  \/ fs[m].key \in DOMAIN r.value
                                  \/ fs[m].ty = "Option<String>"].key)
    ELSE Ok(struct_value(fs, r.value))

\* visit_map: the members in the order received; decoded[n] is the value
\* of member n decoded as the type of the field it names.  A member whose
\* key is no field is skipped, a field seen before is a duplicate field,
\* and a value that does not decode is its error; the first error ends
\* the visit.
visit_map(fs, members, decoded) ==
    LET after[n \in 0..Len(members)] ==
            IF n = 0 THEN Ok(<<>>)
            ELSE IF ~after[n - 1].ok THEN after[n - 1]
            ELSE IF \A k \in DOMAIN fs : fs[k].key # members[n][1]
                THEN after[n - 1]
            ELSE IF members[n][1] \in DOMAIN after[n - 1].value
                THEN Err("duplicate field " \o members[n][1])
            ELSE IF ~decoded[n].ok THEN decoded[n]
            ELSE Ok(after[n - 1].value
                      @@ (members[n][1] :> decoded[n].value))
    IN  visit_map_end(fs, after[Len(members)])

\* visit_seq: the elements are the fields in declaration order; decoded[i]
\* is element i decoded as the type of field i.  The first element that
\* is absent is an invalid length and the first that does not decode is
\* its error.  The visitor returns after the last field: an element left
\* in the text is what serde_json, closing the array, reports as trailing
\* characters.
visit_seq(fs, elems, decoded) ==
    IF \E i \in DOMAIN fs : i > Len(elems) \/ ~decoded[i].ok
        THEN decoded[CHOOSE i \in DOMAIN fs :
                        /\ i > Len(elems) \/ ~decoded[i].ok
                        /\ \A k \in 1..(i - 1) :
                              k <= Len(elems) /\ decoded[k].ok]
    ELSE IF Len(elems) > Len(fs) THEN Err("trailing characters")
    ELSE Ok([n \in {fs[k].name : k \in DOMAIN fs} |->
                decoded[CHOOSE k \in DOMAIN fs : fs[k].name = n].value])

\* The f64 serde_json reads from a number written as text, named by the
\* text serde_json writes for it.  The f64 read is near the number
\* written and is not always the nearest.
f64_text(text) ==
    CASE text \in {"1.5", "100.0"} -> text
      [] text = "1e2" -> "100.0"
      [] text = "0.1234567890123456789" -> "0.12345678901234568"
      [] text = "18446744073709551617" -> "1.8446744073709552e+19"
      [] text = "9007199254740993.0" -> "9007199254740994.0"

\* Deserialize of serde_json::Value: any JSON value; an object is a Map,
\* at every depth, and a number that is no integer of 64 bits is an f64.
RECURSIVE Value_deserialize(_)
Value_deserialize(v) ==
    IF v[1] = "object"
        THEN JObject(Map_collect(
                        v[2],
                        [n \in DOMAIN v[2] |-> Value_deserialize(v[2][n][2])]))
    ELSE IF v[1] = "array"
        THEN JArray([n \in 1..Len(v[2]) |-> Value_deserialize(v[2][n])])
    ELSE IF v[1] = "float" THEN JFloat(f64_text(v[2]))
    ELSE v

\* Deserialize of a value of type ty: a String, an Option<String> (null is
\* None), an unsigned or signed integer, a serde_json::Value (any value),
\* or a struct, from an object or an array.
RECURSIVE value_deserialize(_, _)
value_deserialize(ty, v) ==
    CASE ty = "String" ->
            IF IsJString(v) THEN Ok(v[2]) ELSE Err("invalid type")
      [] ty = "Option<String>" ->
            IF v = JNull THEN Ok(None)
            ELSE IF IsJString(v) THEN Ok(Some(v[2]))
            ELSE Err("invalid type")
      [] ty = "u32" ->
            IF v[1] # "number" THEN Err("invalid type")
            ELSE IF v[2] < 0 THEN Err("invalid value")
            ELSE Ok(v[2])
      [] ty = "i64" ->
            IF v[1] # "number" THEN Err("invalid type") ELSE Ok(v[2])
      [] ty = "Value" -> Ok(Value_deserialize(v))
      [] OTHER ->
            IF IsJObject(v)
                THEN visit_map(
                         StructFields(ty), v[2],
                         [n \in DOMAIN v[2] |->
                             value_deserialize(
                                 field_type(StructFields(ty), v[2][n][1]),
                                 v[2][n][2])])
            ELSE IF v[1] = "array"
                THEN visit_seq(
                         StructFields(ty), v[2],
                         [i \in DOMAIN StructFields(ty) |->
                             IF i > Len(v[2]) THEN Err("invalid length")
                             ELSE value_deserialize(StructFields(ty)[i].ty,
                                                    v[2][i])])
            ELSE Err("invalid type")

\* One field of type String read from the members of an object: the
\* field is missing, or its first member is decoded, and a second member
\* of the key is a duplicate field.
string_field(members, key) ==
    LET at == {i \in DOMAIN members : members[i][1] = key}
    IN  IF at = {} THEN Err("missing field " \o key)
        ELSE LET r == value_deserialize(
                          "String",
                          members[CHOOSE i \in at : \A k \in at : i <= k][2])
             IN  IF ~r.ok THEN r
                 ELSE IF Cardinality(at) > 1
                     THEN Err("duplicate field " \o key)
                 ELSE r

\* #[derive(Deserialize)] of the payload structs; content_type accepts any
\* string.
TextContent_deserialize(j) == value_deserialize("TextContent", j)
ImageUrl_deserialize(j) == value_deserialize("ImageUrl", j)
ImageUrlContent_deserialize(j) == value_deserialize("ImageUrlContent", j)
InputAudio_deserialize(j) == value_deserialize("InputAudio", j)
InputAudioContent_deserialize(j) == value_deserialize("InputAudioContent", j)
FileContent_deserialize(j) == value_deserialize("FileContent", j)
RefusalContent_deserialize(j) == value_deserialize("RefusalContent", j)

\* types/chat.rs: ContentItem, a union over the five payload structs.
ContentItem_Text(c) == <<"Text", c>>
ContentItem_ImageUrl(c) == <<"ImageUrl", c>>
ContentItem_InputAudio(c) == <<"InputAudio", c>>
ContentItem_File(c) == <<"File", c>>
ContentItem_Refusal(c) == <<"Refusal", c>>

\* The encoding of a content item: that of the payload of its variant.
ContentItem_serialize(item) ==
    CASE item[1] = "Text" -> TextContent_serialize(item[2])
      [] item[1] = "ImageUrl" -> ImageUrlContent_serialize(item[2])
      [] item[1] = "InputAudio" -> InputAudioContent_serialize(item[2])
      [] item[1] = "File" -> FileContent_serialize(item[2])
      [] item[1] = "Refusal" -> RefusalContent_serialize(item[2])

\* A mutant of ContentItem_deserialize: the variants are tried in order and
\* the first whose payload decodes is taken, whatever the discriminant.
ContentItem_deserialize_by_shape(j) ==
    LET text == TextContent_deserialize(j)
        image == ImageUrlContent_deserialize(j)
        audio == InputAudioContent_deserialize(j)
        file == FileContent_deserialize(j)
        refusal == RefusalContent_deserialize(j)
    IN  IF text.ok THEN Ok(ContentItem_Text(text.value))
        ELSE IF image.ok THEN Ok(ContentItem_ImageUrl(image.value))
        ELSE IF audio.ok THEN Ok(ContentItem_InputAudio(audio.value))
        ELSE IF file.ok THEN Ok(ContentItem_File(file.value))
        ELSE IF refusal.ok THEN Ok(ContentItem_Refusal(refusal.value))
        ELSE Err("data did not match any variant")

\* The decoding of a content item: it dispatches on the discriminant
\* "type" and decodes the payload of the variant it names; an unknown
\* discriminant is a decode error.
ContentItem_deserialize(j) ==
    IF ~IsJObject(j) THEN Err("invalid type")
    ELSE LET ty == string_field(j[2], "type")
         IN  IF ~ty.ok THEN ty
             ELSE CASE ty.value = "text" ->
                         LET c == TextContent_deserialize(j)
                         IN  IF c.ok THEN Ok(ContentItem_Text(c.value)) ELSE c
                    [] ty.value = "image_url" ->
                         LET c == ImageUrlContent_deserialize(j)
                         IN  IF c.ok THEN Ok(ContentItem_ImageUrl(c.value))
                             ELSE c
                    [] ty.value = "input_audio" ->
                         LET c == InputAudioContent_deserialize(j)
                         IN  IF c.ok THEN Ok(ContentItem_InputAudio(c.value))
                             ELSE c
                    [] ty.value = "file" ->
                         LET c == FileContent_deserialize(j)
                         IN  IF c.ok THEN Ok(ContentItem_File(c.value)) ELSE c
                    [] ty.value = "refusal" ->
                         LET c == RefusalContent_deserialize(j)
                         IN  IF c.ok THEN Ok(ContentItem_Refusal(c.value))
                             ELSE c
                    [] OTHER -> Err("unknown variant " \o ty.value)

\* ChatContent: a plain string or an ordered sequence of content items.
ChatContent_Text(text) == <<"Text", text>>
ChatContent_Array(items) == <<"Array", items>>

\* A mutant of ChatContent_serialize: an array of one item is written as
\* the item alone.
ChatContent_serialize_collapsing(content) ==
    CASE content[1] = "Text" -> JString(content[2])
      [] content[1] = "Array" ->
            IF Len(content[2]) = 1 THEN ContentItem_serialize(content[2][1])
            ELSE JArray([i \in DOMAIN content[2] |->
                            ContentItem_serialize(content[2][i])])

\* The encoding of ChatContent: the string variant as a bare string, the
\* array variant as the array of the encodings of its items.
ChatContent_serialize(content) ==
    CASE content[1] = "Text" -> JString(content[2])
      [] content[1] = "Array" ->
            JArray([i \in DOMAIN content[2] |->
                       ContentItem_serialize(content[2][i])])

\* A mutant of ChatContent_deserialize: an array without elements is read
\* as the empty string.
ChatContent_deserialize_empty_as_text(j) ==
    IF j[1] = "string" THEN Ok(ChatContent_Text(j[2]))
    ELSE IF j[1] = "array"
        THEN LET rs == [i \in DOMAIN j[2] |-> ContentItem_deserialize(j[2][i])]
                 bad == {i \in DOMAIN rs : ~rs[i].ok}
             IN  IF bad # {}
                     THEN rs[CHOOSE i \in bad : \A k \in bad : i <= k]
                 ELSE IF Len(j[2]) = 0 THEN Ok(ChatContent_Text(""))
                 ELSE Ok(ChatContent_Array([i \in DOMAIN rs |-> rs[i].value]))
    ELSE Err("data did not match any variant")

\* The decoding of ChatContent: the JSON shape chooses the variant, a
\* string the string variant and an array the array variant, every element
\* decoded as a content item and the first failure returned.
ChatContent_deserialize(j) ==
    IF j[1] = "string" THEN Ok(ChatContent_Text(j[2]))
    ELSE IF j[1] = "array"
        THEN LET rs == [i \in DOMAIN j[2] |-> ContentItem_deserialize(j[2][i])]
                 bad == {i \in DOMAIN rs : ~rs[i].ok}
             IN  IF bad # {}
                     THEN rs[CHOOSE i \in bad : \A k \in bad : i <= k]
                 ELSE Ok(ChatContent_Array([i \in DOMAIN rs |-> rs[i].value]))
    ELSE Err("data did not match any variant")

\* ChatMessage { role, content } and its convenience constructors.
ChatMessage(role, content) == [role |-> role, content |-> content]
ChatMessage_system(text) == ChatMessage("System", ChatContent_Text(text))
ChatMessage_user(text) == ChatMessage("User", ChatContent_Text(text))
ChatMessage_assistant(text) ==
    ChatMessage("Assistant", ChatContent_Text(text))

\* A mutant of ChatMessage_user_multimodal: no items make an empty text.
ChatMessage_user_multimodal_nonempty(items) ==
    IF items = <<>> THEN ChatMessage("User", ChatContent_Text(""))
    ELSE ChatMessage("User", ChatContent_Array(items))

ChatMessage_user_multimodal(items) ==
    ChatMessage("User", ChatContent_Array(items))

\* types/response.rs: #[derive(Deserialize)] of ResponseUsage; members it
\* does not name are ignored.
ResponseUsage_deserialize(j) == value_deserialize("ResponseUsage", j)
ResponseUsage_serialize(u) ==
    JObject(<<<<"prompt_tokens", JNumber(u.prompt_tokens)>>,
              <<"completion_tokens", JNumber(u.completion_tokens)>>,
              <<"total_tokens", JNumber(u.total_tokens)>>>>)

\* The fields Response names.
ResponseFields == {"id", "object", "created_at", "model", "status", "usage"}
\* The members whose key is not in keys, in the order received.
members_not_in(members, keys) ==
    LET nth[n \in 0..Len(members)] ==
            IF n = 0 THEN <<>>
            ELSE IF members[n][1] \in keys THEN nth[n - 1]
            ELSE Append(nth[n - 1], members[n])
    IN  nth[Len(members)]

\* A mutant of Response_deserialize: the members Response does not name
\* are ignored, as a struct without the flattened field does.
Response_deserialize_closed(j) ==
    IF ~IsJObject(j) THEN Err("invalid type")
    ELSE LET r == value_deserialize("Response", j)
         IN  IF ~r.ok THEN r
             ELSE Ok(r.value @@ ("extra" :> JObject(<<>>)))

\* #[derive(Deserialize)] of Response: from an object only (the struct has
\* a flattened field); the six named fields, and in extra
\* (#[serde(flatten)] extra: Value) the Value decoded from the object of
\* all other members.
Response_deserialize(j) ==
    IF ~IsJObject(j) THEN Err("invalid type")
    ELSE LET r == value_deserialize("Response", j)
         IN  IF ~r.ok THEN r
             ELSE Ok(r.value
                       @@ ("extra" :>
                             Value_deserialize(
                                 JObject(members_not_in(j[2],
                                                        ResponseFields)))))

\* The six named fields of Response in declaration order.
Response_named(r) ==
    <<<<"id", JString(r.id)>>, <<"object", JString(r.object)>>,
      <<"created_at", JNumber(r.created_at)>>,
      <<"model", JString(r.model)>>, <<"status", JString(r.status)>>,
      <<"usage", ResponseUsage_serialize(r.usage)>>>>

\* #[derive(Serialize)] of Response: the six named fields in declaration
\* order, then the members of extra.  An extra that is null adds nothing,
\* and one that is neither null nor an object cannot be flattened.
Response_serialize(r) ==
    IF r.extra = JNull THEN Ok(JObject(Response_named(r)))
    ELSE IF ~IsJObject(r.extra)
        THEN Err("can only flatten structs and maps")
    ELSE Ok(JObject(Response_named(r) \o r.extra[2]))

\* The texts and content items callers pass.
Texts == {"", "Hello, world!", "[\"a\"]"}
ContentItems ==
    {ContentItem_Text(TextContent("text", "What's in this image?")),
     ContentItem_ImageUrl(
        ImageUrlContent("image_url",
                        ImageUrl("https://example.com/image.jpg",
                                 Some("auto")))),
     ContentItem_InputAudio(
        InputAudioContent("input_audio", InputAudio("UklGRg==", "wav"))),
     ContentItem_File(
        FileContent("file", JObject(<<<<"file_id", JString("file_1")>>>>))),
     ContentItem_Refusal(RefusalContent("refusal", "I cannot help with that.")),
     ContentItem_Text(TextContent("image_url", "mislabelled"))}
ItemSeqs == UNION {[1..n -> ContentItems] : n \in 0..MaxItems}
TextCtors == {"system", "user", "assistant"}
\* The Response objects the server sends: the named members alone, with
\* further members after and among them, with a usage that has a member
\* ResponseUsage does not name, without usage, with further members that
\* repeat a key, and with further members out of the order of their keys
\* that hold numbers an f64 does not hold exactly.
WireUsage ==
    JObject(<<<<"prompt_tokens", JNumber(1)>>,
              <<"completion_tokens", JNumber(2)>>,
              <<"total_tokens", JNumber(3)>>>>)
WireNamed ==
    <<<<"id", JString("resp_1")>>, <<"object", JString("response")>>,
      <<"created_at", JNumber(1700000000)>>, <<"model", JString("gpt")>>,
      <<"status", JString("completed")>>>>
WireResponses ==
    {JObject(WireNamed \o <<<<"usage", WireUsage>>>>),
     JObject(WireNamed
               \o <<<<"usage", WireUsage>>,
                     <<"output", JArray(<<JObject(<<<<"type",
                                                      JString("message")>>>>)>>)>>,
                     <<"metadata", JObject(<<<<"k", JString("v")>>>>)>>,
                     <<"error", JNull>>,
                     <<"temperature", JNumber(1)>>>>),
     JObject(<<<<"output_text", JString("hello")>>>> \o WireNamed
               \o <<<<"usage", WireUsage>>>>),
     JObject(WireNamed
               \o <<<<"usage",
                       JObject(WireUsage[2]
                                 \o <<<<"cached_tokens", JNumber(0)>>>>)>>,
                     <<"error", JNull>>>>),
     JObject(WireNamed \o <<<<"error", JNull>>>>),
     JObject(WireNamed
               \o <<<<"usage", WireUsage>>,
                     <<"metadata", JObject(<<<<"k", JNumber(1)>>,
                                             <<"k", JNumber(2)>>>>)>>,
                     <<"note", JString("a")>>,
                     <<"note", JString("b")>>>>),
     JObject(WireNamed
               \o <<<<"usage", WireUsage>>,
                     <<"top_p", JFloat("0.1234567890123456789")>>,
                     <<"metadata",
                       JObject(<<<<"z", JString("1")>>,
                                 <<"a", JFloat("18446744073709551617")>>>>)>>>>)}

\* The content items a peer sends: well-formed ones, ones of an unknown
\* or absent discriminant, and ones lacking the payload of their
\* discriminant.
WireItems ==
    {JObject(<<<<"type", JString("text")>>, <<"text", JString("hi")>>>>),
     JObject(<<<<"type", JString("image_url")>>,
               <<"image_url",
                 JObject(<<<<"url", JString("https://example.com/i.jpg")>>>>)>>>>),
     JObject(<<<<"type", JString("input_audio")>>,
               <<"input_audio",
                 JObject(<<<<"data", JString("UklGRg==")>>,
                           <<"format", JString("wav")>>>>)>>>>),
     JObject(<<<<"type", JString("file")>>,
               <<"file", JObject(<<<<"file_id", JString("file_1")>>>>)>>>>),
     JObject(<<<<"type", JString("refusal")>>,
               <<"refusal", JString("no")>>>>),
     JObject(<<<<"type", JString("video")>>, <<"text", JString("hi")>>>>),
     JObject(<<<<"text", JString("hi")>>>>),
     JObject(<<<<"type", JString("text")>>>>),
     JObject(<<<<"type", JString("image_url")>>, <<"text", JString("hi")>>>>),
     JObject(<<<<"type", JString("refusal")>>, <<"text", JString("hi")>>>>),
     JObject(<<<<"type", JString("input_audio")>>,
               <<"input_audio", JObject(<<<<"data", JString("UklGRg==")>>>>)>>>>),
     JObject(<<<<"type", JString("file")>>>>),
     JString("text")}

InitMessage ==
    /\ builder = Some(ClientBuilder_default)
    /\ built = None
    /\ transports = 0
    /\ client = None
    /\ pc = "idle"
    /\ op = "none"
    /\ args = NoArgs
    /\ request = None
    /\ resp_status = None
    /\ resp_body = None
    /\ result = None
    /\ calls = <<>>
    /\ sends = 0
    /\ ncalls = 0
    /\ deleted = {}
    /\ last_set = NeverSet
    /\ cls = ClsIdle
    /\ inflight = [c \in Callers |-> CallIdle]
    /\ msg \in {[MsgIdle EXCEPT !.ctor = c, !.text = t] :
                    c \in TextCtors, t \in Texts}
               \cup {[MsgIdle EXCEPT !.ctor = "user_multimodal", !.items = is] :
                        is \in ItemSeqs}
               \cup {[MsgIdle EXCEPT !.ctor = "wire", !.wire = Some(w)] :
                        w \in WireItems}
               \cup {[MsgIdle EXCEPT !.ctor = "response", !.wire = Some(w)] :
                        w \in WireResponses}

\* The caller constructs the message.
ChatMessage_construct ==
    /\ msg.ctor \in TextCtors \cup {"user_multimodal"}
    /\ msg.message = None
    /\ msg' =
          [msg EXCEPT !.message =
              Some(CASE msg.ctor = "system" -> ChatMessage_system(msg.text)
                     [] msg.ctor = "user" -> ChatMessage_user(msg.text)
                     [] msg.ctor = "assistant" ->
                            ChatMessage_assistant(msg.text)
                     [] msg.ctor = "user_multimodal" ->
                            ChatMessage_user_multimodal(msg.items))]
    /\ UNCHANGED <<buildVars, callVars, cls, inflight>>

\* The content of the message is encoded for the wire.
ChatContent_encode ==
    /\ msg.message # None
    /\ msg.encoded = None
    /\ msg' =
          [msg EXCEPT !.encoded =
              Some(ChatContent_serialize(unwrap(msg.message).content))]
    /\ UNCHANGED <<buildVars, callVars, cls, inflight>>

\* The encoded content is decoded again, as a peer or a test does.
ChatContent_decode ==
    /\ msg.encoded # None
    /\ msg.decoded = None
    /\ msg' =
          [msg EXCEPT !.decoded =
              Some(ChatContent_deserialize(unwrap(msg.encoded)))]
    /\ UNCHANGED <<buildVars, callVars, cls, inflight>>

\* The content decoded is encoded again.
ChatContent_reencode ==
    /\ msg.ctor \in TextCtors \cup {"user_multimodal"}
    /\ msg.decoded # None
    /\ unwrap(msg.decoded).ok
    /\ msg.reencoded = None
    /\ msg' =
          [msg EXCEPT !.reencoded =
              Some(ChatContent_serialize(unwrap(msg.decoded).value))]
    /\ UNCHANGED <<buildVars, callVars, cls, inflight>>

\* A content item received on the wire is decoded.
ContentItem_decode ==
    /\ msg.ctor = "wire"
    /\ msg.decoded = None
    /\ msg' =
          [msg EXCEPT !.decoded =
              Some(ContentItem_deserialize(unwrap(msg.wire)))]
    /\ UNCHANGED <<buildVars, callVars, cls, inflight>>

\* A Response received is decoded.
Response_decode ==
    /\ msg.ctor = "response"
    /\ msg.decoded = None
    /\ msg' =
          [msg EXCEPT !.decoded = Some(Response_deserialize(unwrap(msg.wire)))]
    /\ UNCHANGED <<buildVars, callVars, cls, inflight>>

\* The Response decoded is encoded again.
Response_reencode ==
    /\ msg.ctor = "response"
    /\ msg.decoded # None
    /\ unwrap(msg.decoded).ok
    /\ msg.reencoded = None
    /\ msg' =
          [msg EXCEPT !.reencoded =
              Some(Response_serialize(unwrap(msg.decoded).value))]
    /\ UNCHANGED <<buildVars, callVars, cls, inflight>>

NextMessage ==
    \/ ChatMessage_construct \/ ChatContent_encode
    \/ ChatContent_decode \/ ChatContent_reencode
    \/ ContentItem_decode
    \/ Response_decode \/ Response_reencode

SpecMessage == InitMessage /\ [][NextMessage]_vars

\* C19: user(text), system(text) and assistant(text) give a message of
\* role User, System and Assistant whose content is the plain string text;
\* user_multimodal(items) gives a message of role User whose content is
\* the array of exactly the items given, in the order given, also for no
\* item and for one.
C19_Constructors ==
    msg.message # None =>
        LET m == unwrap(msg.message)
        IN  /\ (msg.ctor = "user") =>
                  (m.role = "User" /\ m.content = <<"Text", msg.text>>)
            /\ (msg.ctor = "system") =>
                  (m.role = "System" /\ m.content = <<"Text", msg.text>>)
            /\ (msg.ctor = "assistant") =>
                  (m.role = "Assistant" /\ m.content = <<"Text", msg.text>>)
            /\ (msg.ctor = "user_multimodal") =>
                  /\ m.role = "User"
                  /\ m.content[1] = "Array"
                  /\ Len(m.content[2]) = Len(msg.items)
                  /\ \A i \in 1..Len(msg.items) :
                        m.content[2][i] = msg.items[i]

C19_Witness ==
    /\ msg.ctor = "user_multimodal"
    /\ msg.message # None
    /\ Len(msg.items) = 2
    /\ msg.items[1][1] = "Text"
    /\ msg.items[2][1] = "ImageUrl"
    /\ unwrap(msg.message).role = "User"
    /\ unwrap(msg.message).content = <<"Array", msg.items>>

\* C20: the encoding of a content is decided by its variant alone: the
\* string variant is the bare JSON string, and the array variant is the
\* JSON array of the encodings of its items, one per item in their order;
\* an array of one item is an array of one element, not the element.
C20_EncodeByVariant ==
    msg.encoded # None =>
        LET content == unwrap(msg.message).content
            e == unwrap(msg.encoded)
        IN  /\ (content[1] = "Text") => e = <<"string", content[2]>>
            /\ (content[1] = "Array") =>
                  /\ e[1] = "array"
                  /\ Len(e[2]) = Len(content[2])
                  /\ \A i \in 1..Len(content[2]) :
                        /\ e[2][i] = ContentItem_serialize(content[2][i])
                        /\ e[2][i][1] = "object"

C20_Witness ==
    /\ msg.encoded # None
    /\ unwrap(msg.message).content[1] = "Array"
    /\ Len(msg.items) = 1
    /\ unwrap(msg.encoded) =
          <<"array",
            <<<<"object", <<<<"type", <<"string", "refusal">>>>,
                            <<"refusal",
                              <<"string", "I cannot help with that.">>>>>>>>>>>>

VariantLiteral(variant) ==
    CASE variant = "Text" -> "text"
      [] variant = "ImageUrl" -> "image_url"
      [] variant = "InputAudio" -> "input_audio"
      [] variant = "File" -> "file"
      [] variant = "Refusal" -> "refusal"
Literals == {"text", "image_url", "input_audio", "file", "refusal"}

\* Whether every item of a content carries the literal of its variant; a
\* content of the string variant has no item.
Labelled(content) ==
    content[1] = "Array"
        => \A i \in DOMAIN content[2] :
              content[2][i][2].content_type
                  = VariantLiteral(content[2][i][1])

HasString(members, key) ==
    /\ json_get(members, key) # None
    /\ IsJString(unwrap(json_get(members, key)))
\* Whether the members hold an object under key with strings under keys.
HasObject(members, key, keys) ==
    /\ json_get(members, key) # None
    /\ IsJObject(unwrap(json_get(members, key)))
    /\ \A k \in keys : HasString(unwrap(json_get(members, key))[2], k)
\* Whether the object members hold the payload the discriminant ty
\* requires.
HasPayload(members, ty) ==
    CASE ty = "text" -> HasString(members, "text")
      [] ty = "image_url" -> HasObject(members, "image_url", {"url"})
      [] ty = "input_audio" ->
            HasObject(members, "input_audio", {"data", "format"})
      [] ty = "file" -> json_get(members, "file") # None
      [] ty = "refusal" -> HasString(members, "refusal")

\* C22: decoding a content item goes by its discriminant: a wire value
\* that is no object, has no "type", has a "type" that is none of the five
\* literals, or lacks the payload its "type" requires is a decode error;
\* and a value decoded has the variant its "type" names.
C22_DecodeByDiscriminant ==
    (msg.ctor = "wire" /\ msg.decoded # None) =>
        LET w == unwrap(msg.wire)
            d == unwrap(msg.decoded)
            legal == /\ IsJObject(w)
                     /\ HasString(w[2], "type")
                     /\ unwrap(json_get(w[2], "type"))[2] \in Literals
                     /\ HasPayload(w[2], unwrap(json_get(w[2], "type"))[2])
        IN  /\ d.ok <=> legal
            /\ d.ok =>
                  VariantLiteral(d.value[1]) =
                      unwrap(json_get(w[2], "type"))[2]

C22_Witness ==
    /\ msg.ctor = "wire"
    /\ msg.wire =
          Some(JObject(<<<<"type", JString("video")>>,
                         <<"text", JString("hi")>>>>))
    /\ msg.decoded = Some(Err("unknown variant video"))

\* C23: every encoded content item has a member "type", and its value is
\* the literal of the variant of the item.
C23_DiscriminantLiteral ==
    (msg.encoded # None /\ msg.ctor = "user_multimodal") =>
        \A i \in 1..Len(msg.items) :
            LET e == unwrap(msg.encoded)[2][i]
            IN  json_get(e[2], "type") =
                    Some(JString(VariantLiteral(msg.items[i][1])))


\* The members of an encoded object, as a set.
MemberSet(j) == {j[2][i] : i \in DOMAIN j[2]}

\* Whether b is the JSON value a, the members of an object taken in any
\* order.
RECURSIVE SameJson(_, _)
SameJson(a, b) ==
    IF a[1] # b[1] THEN FALSE
    ELSE IF a[1] = "object"
        THEN /\ Len(a[2]) = Len(b[2])
             /\ \A i \in DOMAIN a[2] :
                   \E k \in DOMAIN b[2] :
                      /\ a[2][i][1] = b[2][k][1]
                      /\ SameJson(a[2][i][2], b[2][k][2])
    ELSE IF a[1] = "array"
        THEN /\ Len(a[2]) = Len(b[2])
             /\ \A i \in DOMAIN a[2] : SameJson(a[2][i], b[2][i])
    ELSE a = b

\* Whether the value v is what a Value keeps of the wire value w: a
\* string, null or integer as written, a number written otherwise as the
\* f64 read from it, an array element by element, and of an object one
\* member for every key, kept from the last member written under the key,
\* the members in the order of their keys.
RECURSIVE Kept(_, _)
Kept(w, v) ==
    IF w[1] = "float" THEN v = JFloat(f64_text(w[2]))
    ELSE IF w[1] = "array"
        THEN /\ v[1] = "array"
             /\ Len(v[2]) = Len(w[2])
             /\ \A i \in DOMAIN w[2] : Kept(w[2][i], v[2][i])
    ELSE IF w[1] = "object"
        THEN /\ v[1] = "object"
             /\ {v[2][i][1] : i \in DOMAIN v[2]}
                   = {w[2][i][1] : i \in DOMAIN w[2]}
             /\ \A i, k \in DOMAIN v[2] :
                   i < k => str_lt(v[2][i][1], v[2][k][1])
             /\ \A i \in DOMAIN v[2] :
                   \E n \in DOMAIN w[2] :
                      /\ w[2][n][1] = v[2][i][1]
                      /\ \A k \in (n + 1)..Len(w[2]) :
                            w[2][k][1] # v[2][i][1]
                      /\ Kept(w[2][n][2], v[2][i][2])
    ELSE v = w

\* Whether a Value holds the wire value j as written but for the order of
\* members: no object of j repeats a key and every number of j is an
\* integer.
RECURSIVE Plain(_)
Plain(j) ==
    IF j[1] = "object"
        THEN /\ \A i, k \in DOMAIN j[2] : j[2][i][1] = j[2][k][1] => i = k
             /\ \A i \in DOMAIN j[2] : Plain(j[2][i][2])
    ELSE IF j[1] = "array" THEN \A i \in DOMAIN j[2] : Plain(j[2][i])
    ELSE j[1] # "float"

\* C24 as stated: a Response that decodes keeps in extra, verbatim, every
\* member other than id, object, created_at, model, status and usage, and
\* its re-encoding has every member received with the value received.
C24_AllFieldsRoundTrip ==
    (msg.ctor = "response" /\ msg.decoded # None /\ unwrap(msg.decoded).ok)
        => /\ \A m \in MemberSet(unwrap(msg.wire)) :
                 m[1] \notin ResponseFields
                    => \E x \in MemberSet(unwrap(msg.decoded).value.extra) :
                          x[1] = m[1] /\ SameJson(x[2], m[2])
           /\ {x[1] : x \in MemberSet(unwrap(msg.decoded).value.extra)}
                 \cap ResponseFields = {}
           /\ msg.reencoded # None
                => /\ unwrap(msg.reencoded).ok
                   /\ \A m \in MemberSet(unwrap(msg.wire)) :
                         \E x \in MemberSet(unwrap(msg.reencoded).value) :
                            x[1] = m[1] /\ SameJson(x[2], m[2])

\* C24 amended: a Response that decodes keeps in extra one member for
\* every key other than id, object, created_at, model, status and usage,
\* and what it keeps is the value received under the key as a Value holds
\* it: the members of an object in the order of their keys, of members
\* that repeat a key the last, a number that is no 64-bit integer as the
\* f64 read from it, everything else as received.  The re-encoding succeeds
\* and is the six named fields with the values decoded, in declaration
\* order, followed by the members of extra, so that a member of usage
\* other than the three token counts is not in it.
C24_ExtraPreserved ==
    (msg.ctor = "response" /\ msg.decoded # None /\ unwrap(msg.decoded).ok)
        => LET w == unwrap(msg.wire)
               r == unwrap(msg.decoded).value
           IN  /\ {m[1] : m \in MemberSet(r.extra)}
                     = {m[1] : m \in MemberSet(w)} \ ResponseFields
               /\ \A i, k \in DOMAIN r.extra[2] :
                     i < k => str_lt(r.extra[2][i][1], r.extra[2][k][1])
               /\ \A m \in MemberSet(r.extra) :
                     \E i \in DOMAIN w[2] :
                        /\ w[2][i][1] = m[1]
                        /\ \A k \in (i + 1)..Len(w[2]) : w[2][k][1] # m[1]
                        /\ Kept(w[2][i][2], m[2])
                        /\ Plain(w[2][i][2]) => SameJson(m[2], w[2][i][2])
               /\ msg.reencoded # None
                     => /\ unwrap(msg.reencoded).ok
                        /\ LET e == unwrap(msg.reencoded).value
                           IN  /\ Len(e[2]) = 6 + Len(r.extra[2])
                               /\ [i \in 1..6 |-> e[2][i][1]]
                                     = <<"id", "object", "created_at",
                                         "model", "status", "usage">>
                               /\ \A i \in 1..5 :
                                     Some(e[2][i][2])
                                         = json_get(w[2], e[2][i][1])
                               /\ e[2][6][2]
                                     = ResponseUsage_serialize(r.usage)
                               /\ \A i \in DOMAIN r.extra[2] :
                                     e[2][6 + i] = r.extra[2][i]

\* A Response with members beyond the six named ones was decoded and
\* encoded again.
C24_Witness ==
    /\ msg.ctor = "response"
    /\ msg.reencoded # None
    /\ unwrap(msg.reencoded).ok
    /\ json_get(unwrap(msg.wire)[2], "output") # None
    /\ Len(unwrap(msg.decoded).value.extra[2]) = 4

\* The awaits among the calls of an operation: send(), json() and text()
\* are awaited, the classifier is not.
Awaits(cs) == Count(cs, "send") + Count(cs, "json") + Count(cs, "text")

\* C25 as stated: an operation yields at one point only, the send; it is
\* never suspended on anything else, and an operation that sent a request
\* has awaited exactly once when it returns.
C25_OneYieldPoint ==
    /\ pc # "body"
    /\ (pc = "done" /\ request # None) => Awaits(calls) = 1

\* C25 amended: an operation yields at the send and, when it reads the
\* body of the response, a second time at json() or text(); it yields
\* nowhere else.  A request that cannot be constructed returns without
\* an await; the send is the first call; the body read, if any, is the
\* second; the classifier runs after it without a further await; the body
\* is read unless the send failed, get_embed_code got a non-2xx status, or
\* the operation is delete_response.
C25_TwoYieldPoints ==
    /\ pc = "send" => calls = <<"send">>
    /\ pc = "body" => calls = <<"send">> /\ resp_status # None
    /\ (pc = "done" /\ request = None /\ op # "none") => calls = <<>>
    /\ (pc = "done" /\ request # None) =>
          /\ calls[1] = "send"
          /\ Awaits(calls) \in {1, 2}
          /\ Awaits(calls) = 2 => calls[2] \in {"json", "text"}
          /\ \A i \in DOMAIN calls :
                calls[i] = "from_status" => i = Len(calls)
          /\ Awaits(calls) = 1
                <=> \/ resp_status = None
                    \/ op = "delete_response"
                    \/ op = "get_embed_code"
                         /\ ~is_success(unwrap(resp_status))

\* call_agent is suspended on the body of the response it received, and
\* so yields a second time.
C25_Witness ==
    /\ op = "call_agent"
    /\ pc = "body"
    /\ calls = <<"send">>
    /\ resp_status = Some(200)


\* C26: a JSON operation answered by a non-2xx status other than 401 and
\* 403, with a body that is empty or cannot be read as text, returns the
\* error of the status's kind with the kind's default message.
C26_DefaultMessage ==
    (/\ Responded
     /\ op \in JsonOps
     /\ ~is_success(unwrap(resp_status))
     /\ unwrap(resp_status) \notin {401, 403}
     /\ \/ ~unwrap(resp_body).readable
        \/ unwrap(resp_body).text = "")
        => /\ result = Some(Err(from_status(unwrap(resp_status), None)))
           /\ unwrap(result).error.message
                 \in {"Resource not found", "Internal server error",
                      "Bad request"}


\* The number of items of the body passed to the operation in flight.
ItemCount ==
    IF op = "create_conversation"
        THEN (IF args.request.items = None THEN 0
              ELSE Len(unwrap(args.request.items)))
        ELSE Len(args.request.items)

\* C27: create_conversation and create_conversation_items are not refused
\* for the number of items or of metadata entries.  Whatever the numbers
\* (none, ItemLimit, more), and unless the query cannot be encoded, the
\* request is built and handed to send() once, it is the request an
\* ordinary body gives but for the body, its body is the encoding of all
\* items and entries passed, and the result is what the send and the
\* response give.
C27_NoItemValidation ==
    (/\ op \in {"create_conversation", "create_conversation_items"}
     /\ args.query = None \/ unwrap(args.query).include = None)
        => /\ request # None
           /\ calls[1] = "send"
           /\ sends = 1
           /\ LET ordinary ==
                     IF op = "create_conversation"
                         THEN CreateConversationRequest_default
                         ELSE [items |-> Items(1)]
                   r == RequestOf(Config, op,
                                  [args EXCEPT !.request = ordinary])
               IN  /\ r.ok
                   /\ [unwrap(request) EXCEPT !.body = r.value.body] = r.value
           /\ LET body == unwrap(unwrap(request).body)
                   items == json_get(body[2], "items")
                   metadata == json_get(body[2], "metadata")
               IN  IF op = "create_conversation"
                       THEN /\ (items = None) = (args.request.items = None)
                            /\ items # None =>
                                  Len(unwrap(items)[2]) = ItemCount
                            /\ metadata = args.request.metadata
                       ELSE Len(unwrap(items)[2]) = ItemCount
           /\ pc = "done" =>
                 result =
                     Some(IF resp_status = None THEN send_failed(op).result
                          ELSE Respond(op, unwrap(resp_status),
                                       unwrap(resp_body)).result)

\* create_conversation was called with more than ItemLimit items and more
\* than MetadataLimit metadata entries, the request was sent and the
\* server's 200 was decoded.
C27_Witness ==
    /\ op = "create_conversation"
    /\ ItemCount = ItemLimit + 1
    /\ Len(unwrap(args.request.metadata)[2]) = MetadataLimit + 1
    /\ pc = "done"
    /\ sends = 1
    /\ resp_status = Some(200)
    /\ unwrap(result).ok


\* What serde_urlencoded::to_string gives for the query of operation o.
EncodedQuery(o, q) ==
    to_string(CASE o = "list_conversation_items" -> ListItemsQuery_serialize(q)
                [] o = "create_conversation_items" ->
                      CreateItemsQuery_serialize(q)
                [] o = "get_conversation_item" -> GetItemQuery_serialize(q)
                [] o = "get_response" -> GetResponseQuery_serialize(q))

\* C28: when the query of list_conversation_items,
\* create_conversation_items, get_conversation_item or get_response cannot
\* be encoded, the operation returns InvalidRequest with the encoder's
\* message at once: no request is built, send() is not called and nothing
\* is awaited.
C28_EncodeFailure ==
    (/\ op \in QueryOps
     /\ args.query # None
     /\ ~EncodedQuery(op, unwrap(args.query)).ok)
        => /\ pc = "done"
           /\ result =
                 Some(Err(InvalidRequest(
                     EncodedQuery(op, unwrap(args.query)).error)))
           /\ unwrap(result).error.message = "unsupported value"
           /\ request = None
           /\ sends = 0
           /\ calls = <<>>
           /\ resp_status = None

\* get_response was called with a query serde_urlencoded refuses and
\* returned InvalidRequest without a send.
C28_Witness ==
    /\ op = "get_response"
    /\ args.query =
          Some([GetResponseQuery_default EXCEPT !.include = Some(<<"a", "b">>)])
    /\ pc = "done"
    /\ result = Some(Err(InvalidRequest("unsupported value")))
    /\ sends = 0


\* The kinds of error an endpoint operation returns.
EndpointErrorKinds ==
    {"Http", "Unauthorized", "Forbidden", "NotFound", "InvalidRequest",
     "ServerError"}

\* C29: the error an endpoint operation returns is of one of the six kinds
\* Http, Unauthorized, Forbidden, NotFound, InvalidRequest, ServerError,
\* so never Cancelled, Json, Url or Configuration; cancel_response answered
\* by a 2xx status with a decodable body returns the decoded Response; a
\* Configuration error is what build() and from_env() return, with one of
\* their three messages, and they return no other kind but Http.
C29_EndpointErrorKinds ==
    /\ (result # None /\ ~unwrap(result).ok) =>
          /\ unwrap(result).error.kind \in EndpointErrorKinds
          /\ unwrap(result).error.kind \in TwcErrorKinds
    /\ (/\ op = "cancel_response" /\ Responded
        /\ is_success(unwrap(resp_status))
        /\ unwrap(resp_body).readable /\ unwrap(resp_body).valid) =>
          result = Some(Ok([decoded |-> unwrap(resp_body).text]))
    /\ (built # None /\ ~unwrap(built).ok) =>
          \/ unwrap(built).error = Http
          \/ /\ unwrap(built).error.kind = "Configuration"
             /\ unwrap(built).error.message
                   \in {"Base URL is required", "Token is required",
                        "TWCAI_API_TOKEN environment variable not set"}

\* Against a client from_env() constructed, cancel_response was answered
\* 500 and returned the ServerError of the classifier.
C29_Witness ==
    /\ built # None /\ unwrap(built).ok
    /\ last_set.base_url = Some(DefaultBaseUrl)
    /\ op = "cancel_response"
    /\ pc = "done"
    /\ resp_status = Some(500)
    /\ result = Some(Err(ServerError(500, "boom")))

====
